---- MODULE Spec2Model ----
(***************************************************************************)
(* State-machine model of the telemetry engine: the alarm store and its    *)
(* detection loops (oam.py), the KPI windows and threshold evaluation      *)
(* (kpi.py) and the event log with its generation paths (event.py).        *)
(*                                                                         *)
(* Conventions.  Percentages and other float quantities are fixed-point    *)
(* integers in hundredths (99.5 is 9950).  datetime.now() is the variable  *)
(* now, which only the environment advances.  An f-string is the tuple of  *)
(* its parts.  A Bernoulli trial is a Boolean drawn with \E.               *)
(***************************************************************************)
EXTENDS Integers, Sequences, FiniteSets, TLC

\* ----------------------------------------------------------------- bounds
\* Number of entries of the network_nodes lists that are modelled (a prefix
\* of the six nodes of the source).
NumNodes == 2
\* Largest alarm id the detection loops may allocate.
MaxAlarms == 2
\* Largest value of the clock.
MaxTime == 2

\* ------------------------------------------------------------ node lists
AllNodes ==
    << [id |-> "gnb-001", type |-> "gNB", ip |-> "10.0.1.1", status |-> "active"],
       [id |-> "gnb-002", type |-> "gNB", ip |-> "10.0.1.2", status |-> "active"],
       [id |-> "amf-001", type |-> "AMF", ip |-> "10.0.2.1", status |-> "active"],
       [id |-> "smf-001", type |-> "SMF", ip |-> "10.0.2.2", status |-> "active"],
       [id |-> "upf-001", type |-> "UPF", ip |-> "10.0.3.1", status |-> "active"],
       [id |-> "pcf-001", type |-> "PCF", ip |-> "10.0.3.2", status |-> "active"] >>

InitNetworkNodes == SubSeq(AllNodes, 1, NumNodes)

NodeIdx == 1..NumNodes

NodeIds == {AllNodes[i].id : i \in NodeIdx}

\* random.random() < p (p in percent): both outcomes unless p is 0 or 100.
Bernoulli(p) == IF p >= 100 THEN {TRUE} ELSE IF p <= 0 THEN {FALSE} ELSE BOOLEAN

\* f"{x:.1f}": hundredths rounded to tenths.
Fmt1(x) == (x + 5) \div 10

\* ------------------------------------------------------------- variables
VARIABLES
    now,                \* datetime.now()
    alarms,             \* OAMAutomation.alarms: id -> alarm record
    alarm_id_counter,   \* OAMAutomation.alarm_id_counter
    oam_network_nodes,  \* OAMAutomation.network_nodes
    id_log,             \* history: the ids returned by _create_alarm, in order
    hc_i,               \* health-check loop: index of the next node, 0 = sleeping
    fg_pc,              \* fault-generation loop: "faults", "recover" or "sleep"
    fg_i,               \* fault-generation loop: node index
    api_call,           \* the last direct call of _create_alarm or _clear_alarm
    th_pc,              \* per detection thread: "idle", a line of _create_alarm, "clearing"
    th_calls,           \* per detection thread: the _create_alarm calls its iteration still makes
    th_alarm_id,        \* per detection thread: the local alarm_id of _create_alarm
    th_loaded,          \* per detection thread: the counter value loaded by line 150
    th_snapshot,        \* fault-gen thread: the ids of the recovery loop still to clear
    events,             \* EventSimulator.events
    event_network_nodes,\* EventSimulator.network_nodes
    sim_pc,             \* _simulation_loop: where its tick is
    lt_pc,              \* run_load_test: where the call is
    fo_pc,              \* simulate_failover_scenario: where the call is
    cmd_ret,            \* the last run_load_test or simulate_failover_scenario call that
                        \* returned: its arguments, whether it returned False, its value
    ev_building,        \* per event thread: the event it has built and not yet appended
    kpi_data,           \* KPIMonitoring.kpi_data
    kpi_pc,             \* _collection_loop: 0 asleep, i collecting node i, then analysing
    kpi_issues,         \* what the last _analyze_kpi_data returned
    running,            \* self.running of OAMAutomation, KPIMonitoring, EventSimulator
    loop_at,            \* per loop thread: where its "while self.running" loop is
    main_pc,            \* main(): where it is
    loop_instances      \* per loop thread name: how many threads of that name are at
                        \* each place of the loop, under direct start() and stop() calls

oamVars == <<alarms, alarm_id_counter, oam_network_nodes, id_log>>
loopVars == <<hc_i, fg_pc, fg_i>>
\* What the detection loops, run one tick at a time, leave alone.
thVars == <<th_pc, th_calls, th_alarm_id, th_loaded, th_snapshot>>
eventVars == <<events, event_network_nodes, sim_pc, lt_pc, fo_pc, cmd_ret>>
kpiVars == <<kpi_data, kpi_pc, kpi_issues>>
lifeVars == <<running, loop_at, main_pc, loop_instances>>
outsideLoops == <<api_call, thVars, eventVars, ev_building, kpiVars, lifeVars>>
outsideEvents == <<oamVars, loopVars, api_call, thVars, ev_building, kpiVars, lifeVars>>
outsideEventThreads == <<oamVars, loopVars, api_call, thVars, kpiVars, lifeVars>>
outsideKpi == <<oamVars, loopVars, api_call, thVars, eventVars, ev_building, lifeVars>>
vars == <<now, oamVars, loopVars, outsideLoops>>

\* The threads OAMAutomation.start creates.
Threads == {"health-check-thread", "fault-gen-thread", "log-parse-thread"}

\* The thread EventSimulator.start creates, and the threads of the callers of
\* run_load_test and simulate_failover_scenario.
EventThreads == {"event-simulation-thread", "load-test-caller", "failover-caller"}

NotBuilding == [stage |-> "none"]

\* ------------------------------------------------------------ alarm store
NoAlarms == [i \in {} |-> 0]

\* _create_alarm: the store and counter after the call, and the returned id.
CreateAlarmKeepCounter(store, counter, node_id, alarm_type, severity, description, t) ==
    LET alarm_id == counter
        alarm == [id |-> alarm_id, node_id |-> node_id, type |-> alarm_type,
                  severity |-> severity, description |-> description,
                  raised_time |-> t, status |-> "active"]
    IN [alarms |-> (alarm_id :> alarm) @@ store,
        alarm_id_counter |-> counter,
        ret |-> alarm_id]

create_alarm(store, counter, node_id, alarm_type, severity, description, t) ==
    LET alarm_id == counter
        alarm == [id |-> alarm_id, node_id |-> node_id, type |-> alarm_type,
                  severity |-> severity, description |-> description,
                  raised_time |-> t, status |-> "active"]
    IN [alarms |-> (alarm_id :> alarm) @@ store,
        alarm_id_counter |-> counter + 1,
        ret |-> alarm_id]

\* _clear_alarm that deletes the alarm from the store.
clear_alarm_removing(store, alarm_id, t) ==
    IF alarm_id \in DOMAIN store
    THEN [alarms |-> [a \in DOMAIN store \ {alarm_id} |-> store[a]], ret |-> TRUE]
    ELSE [alarms |-> store, ret |-> FALSE]

\* _clear_alarm: the store after the call, and the returned Boolean.
clear_alarm(store, alarm_id, t) ==
    IF alarm_id \in DOMAIN store
    THEN [alarms |-> [store EXCEPT ![alarm_id] =
                        [status |-> "cleared", cleared_time |-> t] @@ store[alarm_id]],
          ret |-> TRUE]
    ELSE [alarms |-> store, ret |-> FALSE]

HasClearedTime(a) == "cleared_time" \in DOMAIN a

\* ------------------------------------------------------ alarm descriptions
NodeDownDesc(id) == <<"Node ", id, " is down">>

\* A call of _create_alarm made by a loop: its four arguments.
AlarmArgs(node_id, alarm_type, severity, description) ==
    [node_id |-> node_id, type |-> alarm_type, severity |-> severity,
     description |-> description]

\* Applies a sequence of _create_alarm calls to the state st =
\* [alarms, alarm_id_counter, id_log].
RECURSIVE CreateAll(_, _, _)
CreateAll(st, calls, t) ==
    IF calls = <<>> THEN st
    ELSE LET c == Head(calls)
             r == create_alarm(st.alarms, st.alarm_id_counter, c.node_id, c.type,
                               c.severity, c.description, t)
         IN CreateAll([alarms |-> r.alarms, alarm_id_counter |-> r.alarm_id_counter,
                       id_log |-> Append(st.id_log, r.ret)],
                      Tail(calls), t)

OamState == [alarms |-> alarms, alarm_id_counter |-> alarm_id_counter, id_log |-> id_log]

\* The loops allocate no id above MaxAlarms.
Room(k) == alarm_id_counter + k - 1 <= MaxAlarms

\* The three loops run their ticks one at a time: a tick begins when every
\* loop is in its time.sleep.
AllAsleep == hc_i = 0 /\ fg_pc = "sleep"

\* A loop that wakes from its time.sleep reads a later clock than the tick
\* before it; a tick is shorter than the clock's resolution.
Later == now < MaxTime /\ now' = now + 1

\* ------------------------------------------------------- health-check loop
\* random.uniform draws of the health check, in hundredths of a percent.
\* <<cpu_usage, memory_usage, disk_usage>>.
HealthDraws == {<<5000, 5000, 5000>>, <<9120, 5000, 5000>>, <<5000, 8610, 8130>>}

\* The _create_alarm calls of one node's health check, in source order.
HealthCalls(node, cpu_usage, memory_usage, disk_usage) ==
    (IF cpu_usage > 9000
     THEN << AlarmArgs(node.id, "PROCESSING_ERROR", "MAJOR",
                       <<"High CPU usage: ", Fmt1(cpu_usage), "%">>) >>
     ELSE <<>>)
    \o (IF memory_usage > 8500
        THEN << AlarmArgs(node.id, "PROCESSING_ERROR", "WARNING",
                          <<"High memory usage: ", Fmt1(memory_usage), "%">>) >>
        ELSE <<>>)
    \o (IF disk_usage > 8000
        THEN << AlarmArgs(node.id, "EQUIPMENT", "MINOR",
                          <<"High disk usage: ", Fmt1(disk_usage), "%">>) >>
        ELSE <<>>)

\* The sleep of _health_check_loop ends and a tick begins.
HealthCheckWake ==
    /\ AllAsleep
    /\ Later
    /\ hc_i' = 1
    /\ UNCHANGED <<oamVars, fg_pc, fg_i, outsideLoops>>

\* One iteration of "for node in self.network_nodes" of _health_check_loop;
\* after the last node the loop sleeps (time.sleep(self.health_check_interval)).
HealthCheckNode ==
    /\ hc_i >= 1
    /\ \E draw \in HealthDraws :
         LET calls == HealthCalls(oam_network_nodes[hc_i], draw[1], draw[2], draw[3])
             st == CreateAll(OamState, calls, now)
         IN /\ Room(Len(calls))
            /\ alarms' = st.alarms
            /\ alarm_id_counter' = st.alarm_id_counter
            /\ id_log' = st.id_log
    /\ hc_i' = IF hc_i < NumNodes THEN hc_i + 1 ELSE 0
    /\ UNCHANGED <<now, oam_network_nodes, fg_pc, fg_i, outsideLoops>>

\* --------------------------------------------------- fault-generation loop
\* fault_types, probabilities in percent.
fault_types ==
    << [type |-> "node_down", probability |-> 5],
       [type |-> "service_timeout", probability |-> 10],
       [type |-> "memory_overflow", probability |-> 7],
       [type |-> "connection_failure", probability |-> 15],
       [type |-> "authentication_failure", probability |-> 3] >>

\* The calls of lines 94-102 with another description on line 94.
FaultCallUnnamedNodeDown(node, fault) ==
    IF fault.type = "node_down"
    THEN AlarmArgs(node.id, "EQUIPMENT", "CRITICAL", <<"Node down: ", node.id>>)
    ELSE IF fault.type = "service_timeout"
    THEN AlarmArgs(node.id, "QUALITY_OF_SERVICE", "MAJOR", <<"Service timeout on ", node.id>>)
    ELSE IF fault.type = "memory_overflow"
    THEN AlarmArgs(node.id, "PROCESSING_ERROR", "MAJOR", <<"Memory overflow on ", node.id>>)
    ELSE IF fault.type = "connection_failure"
    THEN AlarmArgs(node.id, "COMMUNICATIONS", "MINOR", <<"Connection failure on ", node.id>>)
    ELSE AlarmArgs(node.id, "SECURITY", "WARNING", <<"Authentication failure on ", node.id>>)

\* The _create_alarm call made for a fault that fired.
FaultCall(node, fault) ==
    IF fault.type = "node_down"
    THEN AlarmArgs(node.id, "EQUIPMENT", "CRITICAL", NodeDownDesc(node.id))
    ELSE IF fault.type = "service_timeout"
    THEN AlarmArgs(node.id, "QUALITY_OF_SERVICE", "MAJOR", <<"Service timeout on ", node.id>>)
    ELSE IF fault.type = "memory_overflow"
    THEN AlarmArgs(node.id, "PROCESSING_ERROR", "MAJOR", <<"Memory overflow on ", node.id>>)
    ELSE IF fault.type = "connection_failure"
    THEN AlarmArgs(node.id, "COMMUNICATIONS", "MINOR", <<"Connection failure on ", node.id>>)
    ELSE AlarmArgs(node.id, "SECURITY", "WARNING", <<"Authentication failure on ", node.id>>)

\* node["status"] = "down" for every fault that fires.
FaultStatusAnyFault(nodes, i, fault) == [nodes EXCEPT ![i].status = "down"]

\* node["status"] = "down" for a node_down fault, nothing for the others.
FaultStatus(nodes, i, fault) ==
    IF fault.type = "node_down" THEN [nodes EXCEPT ![i].status = "down"] ELSE nodes

\* The _create_alarm calls of one node's inner loop "for fault in fault_types",
\* fires[j] being the outcome of the trial of fault j.
RECURSIVE FaultCalls(_, _, _)
FaultCalls(node, fires, j) ==
    IF j > Len(fault_types) THEN <<>>
    ELSE (IF fires[j] THEN << FaultCall(node, fault_types[j]) >> ELSE <<>>)
         \o FaultCalls(node, fires, j + 1)

\* The node list after one node's inner loop.
RECURSIVE FaultStatuses(_, _, _, _)
FaultStatuses(nodes, i, fires, j) ==
    IF j > Len(fault_types) THEN nodes
    ELSE FaultStatuses(IF fires[j] THEN FaultStatus(nodes, i, fault_types[j]) ELSE nodes,
                       i, fires, j + 1)

\* The outcomes the trials of one node can have.
FaultOutcomes ==
    {fires \in [1..Len(fault_types) -> BOOLEAN] :
        \A j \in 1..Len(fault_types) : fires[j] \in Bernoulli(fault_types[j].probability)}

\* One iteration of the first "for node in self.network_nodes" (lines 88-102).
FaultNode ==
    /\ fg_pc = "faults"
    /\ \E fires \in FaultOutcomes :
         LET node == oam_network_nodes[fg_i]
             calls == FaultCalls(node, fires, 1)
             st == CreateAll(OamState, calls, now)
         IN /\ Room(Len(calls))
            /\ oam_network_nodes' = FaultStatuses(oam_network_nodes, fg_i, fires, 1)
            /\ alarms' = st.alarms
            /\ alarm_id_counter' = st.alarm_id_counter
            /\ id_log' = st.id_log
    /\ IF fg_i < NumNodes
       THEN /\ fg_i' = fg_i + 1
            /\ UNCHANGED fg_pc
       ELSE /\ fg_pc' = "recover"
            /\ fg_i' = 1
    /\ UNCHANGED <<now, hc_i, outsideLoops>>

\* list(self.alarms.items()): the ids in insertion order.
RECURSIVE AlarmIds(_)
AlarmIds(S) ==
    IF S = {} THEN <<>>
    ELSE LET m == CHOOSE x \in S : \A y \in S : x <= y
         IN <<m>> \o AlarmIds(S \ {m})

RecoveryMatchNodeOnly(alarm, node) ==
    alarm.node_id = node.id

\* The test of line 108 for the recovering node.
RecoveryMatch(alarm, node) ==
    alarm.node_id = node.id /\ alarm.description = NodeDownDesc(node.id)

\* Lines 107-109 left out: no alarm is cleared.
RecoverWithoutClearing(store, ids, node, t) == store

RECURSIVE ClearFirstMatching(_, _, _, _)
ClearFirstMatching(store, ids, node, t) ==
    IF ids = <<>> THEN store
    ELSE IF RecoveryMatch(store[Head(ids)], node)
    THEN clear_alarm(store, Head(ids), t).alarms
    ELSE ClearFirstMatching(store, Tail(ids), node, t)

\* The loop of lines 107-109 over the snapshot ids.
RECURSIVE ClearMatching(_, _, _, _)
ClearMatching(store, ids, node, t) ==
    IF ids = <<>> THEN store
    ELSE LET alarm_id == Head(ids)
             next == IF RecoveryMatch(store[alarm_id], node)
                     THEN clear_alarm(store, alarm_id, t).alarms
                     ELSE store
         IN ClearMatching(next, Tail(ids), node, t)

\* One iteration of the second "for node in self.network_nodes" (lines 103-109).
RecoverTrial ==
    /\ fg_pc = "recover"
    /\ \E recovered \in Bernoulli(30) :
         IF oam_network_nodes[fg_i].status = "down" /\ recovered
         THEN /\ oam_network_nodes' = [oam_network_nodes EXCEPT ![fg_i].status = "active"]
              /\ alarms' = ClearMatching(alarms, AlarmIds(DOMAIN alarms),
                                         oam_network_nodes[fg_i], now)
         ELSE UNCHANGED <<oam_network_nodes, alarms>>
    /\ IF fg_i < NumNodes
       THEN /\ fg_i' = fg_i + 1
            /\ UNCHANGED fg_pc
       ELSE /\ fg_pc' = "sleep"
            /\ fg_i' = 1
    /\ UNCHANGED <<now, alarm_id_counter, id_log, hc_i, outsideLoops>>

\* time.sleep(self.fault_gen_interval) ends and a tick begins.
FaultGenWake ==
    /\ AllAsleep
    /\ Later
    /\ fg_pc' = "faults"
    /\ UNCHANGED <<oamVars, fg_i, hc_i, outsideLoops>>

\* ----------------------------------------------------------- log-scan loop
log_patterns ==
    << [pattern |-> "authentication failed", alarm_type |-> "SECURITY", severity |-> "WARNING"],
       [pattern |-> "connection timed out", alarm_type |-> "COMMUNICATIONS", severity |-> "MINOR"],
       [pattern |-> "service unavailable", alarm_type |-> "QUALITY_OF_SERVICE", severity |-> "MAJOR"],
       [pattern |-> "out of memory", alarm_type |-> "PROCESSING_ERROR", severity |-> "CRITICAL"],
       [pattern |-> "temperature exceeds threshold", alarm_type |-> "ENVIRONMENTAL",
        severity |-> "MAJOR"] >>

\* log_types of _generate_mock_log, each message as its level prefix and its
\* lower-cased text after the prefix.
log_types ==
    << [level |-> "INFO", text |-> "normal operation"],
       [level |-> "INFO", text |-> "service started"],
       [level |-> "INFO", text |-> "connection established"],
       [level |-> "WARNING", text |-> "high resource usage"],
       [level |-> "WARNING", text |-> "authentication failed"],
       [level |-> "ERROR", text |-> "connection timed out"],
       [level |-> "ERROR", text |-> "service unavailable"],
       [level |-> "CRITICAL", text |-> "out of memory"],
       [level |-> "CRITICAL", text |-> "temperature exceeds threshold"] >>

\* pattern in message.lower(): no pattern occurs in a level prefix or spans
\* the ": " separator, so the substring test is equality with the text.
PatternIn(pattern, message) == pattern = message.text

\* The _create_alarm calls for one log line, in pattern order.
RECURSIVE LogCalls(_, _, _)
LogCalls(node, message, k) ==
    IF k > Len(log_patterns) THEN <<>>
    ELSE (IF PatternIn(log_patterns[k].pattern, message)
          THEN << AlarmArgs(node.id, log_patterns[k].alarm_type, log_patterns[k].severity,
                            <<"Log pattern match: ", log_patterns[k].pattern>>) >>
          ELSE <<>>)
         \o LogCalls(node, message, k + 1)

\* The _create_alarm calls of the lines of one tick, in order; a line is
\* <<index of the node, index of the message>>.
RECURSIVE LogTickCalls(_, _)
LogTickCalls(nodes, lines) ==
    IF lines = <<>> THEN <<>>
    ELSE LogCalls(nodes[Head(lines)[1]], log_types[Head(lines)[2]], 1)
         \o LogTickCalls(nodes, Tail(lines))

\* random.randint(5, 15): the numbers of lines drawn for a tick.
LogLineCounts == {5, 15}

\* random.choice(log_types): the messages drawn, by index.
MessageDraws == {1, 5, 8}

\* The drawn messages that match a pattern, and one that matches none.
MatchingMessages ==
    {m \in MessageDraws :
        \E k \in 1..Len(log_patterns) : PatternIn(log_patterns[k].pattern, log_types[m])}
QuietMessage == CHOOSE m \in MessageDraws : m \notin MatchingMessages

\* The lines drawn for a tick of n lines of which the first k match a pattern.
\* A line that matches no pattern changes nothing, so the other orders and the
\* other quiet lines give the same step.
LogLines(n, k) ==
    {[p \in 1..n |-> IF p <= k THEN hits[p] ELSE <<1, QuietMessage>>] :
        hits \in [1..k -> NodeIdx \X MatchingMessages]}

\* One tick of _log_parsing_loop: "for _ in range(random.randint(5, 15))".
LogScanTick ==
    /\ AllAsleep
    /\ Later
    /\ \E n \in LogLineCounts, k \in 0..MaxAlarms :
         /\ Room(k)
         /\ \E lines \in LogLines(n, k) :
              LET calls == LogTickCalls(oam_network_nodes, lines)
                  st == CreateAll(OamState, calls, now')
              IN /\ alarms' = st.alarms
                 /\ alarm_id_counter' = st.alarm_id_counter
                 /\ id_log' = st.id_log
    /\ UNCHANGED <<oam_network_nodes, hc_i, fg_pc, fg_i, outsideLoops>>

\* ============================================================ event.py
\* Largest number of events in the log.
MaxEvents == 3

\* self.scenarios, probabilities in percent.
scenarios ==
    << [name |-> "AMF Failover",
        events |-> << [type |-> "NODE_FAILURE", target_type |-> "AMF", probability |-> 100],
                      [type |-> "FAILOVER", target_type |-> "AMF", probability |-> 90],
                      [type |-> "RECOVERY", target_type |-> "AMF", probability |-> 80] >>],
       [name |-> "Network Congestion",
        events |-> << [type |-> "NETWORK_CONGESTION", target_type |-> "ALL", probability |-> 100],
                      [type |-> "SERVICE_FAILURE", target_type |-> "UPF", probability |-> 70],
                      [type |-> "RECOVERY", target_type |-> "ALL", probability |-> 90] >>],
       [name |-> "Resource Exhaustion",
        events |-> << [type |-> "RESOURCE_EXHAUSTION", target_type |-> "SMF", probability |-> 100],
                      [type |-> "SERVICE_FAILURE", target_type |-> "SMF", probability |-> 80],
                      [type |-> "RECOVERY", target_type |-> "SMF", probability |-> 90] >>],
       [name |-> "Security Incident",
        events |-> << [type |-> "SECURITY_BREACH", target_type |-> "PCF", probability |-> 100],
                      [type |-> "CONFIGURATION_CHANGE", target_type |-> "PCF", probability |-> 90],
                      [type |-> "RECOVERY", target_type |-> "PCF", probability |-> 95] >>],
       [name |-> "Multiple Node Failure",
        events |-> << [type |-> "NODE_FAILURE", target_type |-> "gNB", probability |-> 100],
                      [type |-> "NODE_FAILURE", target_type |-> "UPF", probability |-> 80],
                      [type |-> "FAILOVER", target_type |-> "gNB", probability |-> 90],
                      [type |-> "FAILOVER", target_type |-> "UPF", probability |-> 70],
                      [type |-> "RECOVERY", target_type |-> "gNB", probability |-> 95],
                      [type |-> "RECOVERY", target_type |-> "UPF", probability |-> 90] >>] >>

\* The random draws of the details of an event of a type for a node.
DetailDraws(event_type, node) ==
    IF event_type = "NODE_FAILURE"
    THEN {[failure_reason |-> "Hardware failure", severity |-> "Critical"]}
    ELSE IF event_type = "SERVICE_FAILURE"
    THEN {[service_name |-> "Authentication", failure_reason |-> "Timeout",
           affected_users |-> 10]}
    ELSE IF event_type = "NETWORK_CONGESTION"
    THEN {[congestion_level |-> 7000, affected_interfaces |-> "N1", duration_seconds |-> 30]}
    ELSE IF event_type = "SECURITY_BREACH"
    THEN {[breach_type |-> "Unauthorized access", severity |-> "Critical",
           affected_systems |-> 1]}
    ELSE IF event_type = "RESOURCE_EXHAUSTION"
    THEN {[resource_type |-> "CPU", utilization |-> 9000, available_capacity |-> 0]}
    ELSE IF event_type = "CONFIGURATION_CHANGE"
    THEN {[change_type |-> "Parameter update", change_reason |-> "Planned maintenance",
           change_id |-> <<"CHG-", 1000>>]}
    ELSE IF event_type = "FAILOVER"
    THEN {[failover_target |-> <<node.type, "-BACKUP">>, failover_type |-> "Automatic",
           failover_duration_seconds |-> 5]}
    ELSE {[recovery_action |-> "Restart", recovery_duration_seconds |-> 10,
           success |-> ok] : ok \in Bernoulli(90)}

\* The id of the next event: len(self.events) + 1 (lines 136, 232, 253).
NextEventIdNoPlusOne(evs) == Len(evs)

NextEventId(evs) == Len(evs) + 1

\* target_node["status"] after an event when line 195 does not test the flag.
StatusAfterEventAnyRecovery(status, event_type, details) ==
    IF event_type = "NODE_FAILURE" THEN "down"
    ELSE IF event_type = "RECOVERY" THEN "active"
    ELSE status

\* target_node["status"] after an event (lines 152 and 195-196).
StatusAfterEvent(status, event_type, details) ==
    IF event_type = "NODE_FAILURE" THEN "down"
    ELSE IF event_type = "RECOVERY" /\ details.success THEN "active"
    ELSE status

\* _generate_event on a log that keeps its two latest events only.
generate_event_bounded_log(evs, nodes, event_type, ti, details, t) ==
    LET event == [id |-> NextEventId(evs), type |-> event_type,
                  target_node |-> nodes[ti].id, target_type |-> nodes[ti].type,
                  timestamp |-> t, details |-> details]
    IN [events |-> IF Len(evs) < 2 THEN Append(evs, event) ELSE Append(Tail(evs), event),
        nodes |-> [nodes EXCEPT ![ti].status =
                      StatusAfterEvent(nodes[ti].status, event_type, details)],
        event |-> event]

\* _generate_event for the node at index ti, with the details drawn: the log
\* and the node list after the call, and the event returned.
generate_event(evs, nodes, event_type, ti, details, t) ==
    LET event == [id |-> NextEventId(evs), type |-> event_type,
                  target_node |-> nodes[ti].id, target_type |-> nodes[ti].type,
                  timestamp |-> t, details |-> details]
    IN [events |-> Append(evs, event),
        nodes |-> [nodes EXCEPT ![ti].status =
                      StatusAfterEvent(nodes[ti].status, event_type, details)],
        event |-> event]

EventRoom == Len(events) < MaxEvents

\* Every event reads the clock. A time.sleep lies before each event of a
\* scenario, of _generate_random_events and of simulate_failover_scenario, and
\* before the first event that follows the start event of a load test: these
\* read a later clock than the event before them; the other events of a load
\* test read the same clock as the event before them.

\* The commands and the simulation tick run one at a time.
EventsIdle == sim_pc.at = "sleep" /\ lt_pc.at = "none" /\ fo_pc.at = "none"

\* The positions of all nodes, whatever their type.
NodesOfAnyType(nodes, t) == [i \in 1..Len(nodes) |-> i]

\* [node for node in self.network_nodes if node["type"] == t], as indices.
NodesOfType(nodes, t) == SelectSeq([i \in 1..Len(nodes) |-> i], LAMBDA i : nodes[i].type = t)

\* -------------------------------------------------------- _simulation_loop
\* A tick begins with _run_scenario (random.random() < 0.7): the scenario is
\* chosen.
ScenarioBegin ==
    /\ EventsIdle
    /\ \E sc \in 1..Len(scenarios) :
         sim_pc' = [at |-> "scenario", scenario |-> sc, step |-> 1, emitted |-> <<>>]
    /\ UNCHANGED <<now, outsideEvents, events, event_network_nodes, lt_pc, fo_pc, cmd_ret>>

\* The run of a scenario, with the event that the iteration at pc.step
\* appended at position pos of the log.
Emitted(pc, pos) == [pc EXCEPT !.emitted = Append(@, [pos |-> pos, step |-> pc.step])]

\* The order of the iterations when the loop takes the EventSpecs after the
\* first one from the last to the second.
AfterScenarioStepBackwards(pc) ==
    IF pc.step = 1 /\ Len(scenarios[pc.scenario].events) > 1
    THEN [pc EXCEPT !.step = Len(scenarios[pc.scenario].events)]
    ELSE IF pc.step > 2 THEN [pc EXCEPT !.step = pc.step - 1]
    ELSE [at |-> "sleep"]

\* After the step at position k of a scenario: the next step or the sleep.
AfterScenarioStep(pc) ==
    IF pc.step < Len(scenarios[pc.scenario].events)
    THEN [pc EXCEPT !.step = pc.step + 1]
    ELSE [at |-> "sleep"]

\* One iteration of "for event_def in scenario['events']" (lines 113-126).
ScenarioStep ==
    /\ sim_pc.at = "scenario"
    /\ LET event_def == scenarios[sim_pc.scenario].events[sim_pc.step]
           target_nodes == IF event_def.target_type = "ALL"
                           THEN [i \in 1..Len(event_network_nodes) |-> i]
                           ELSE NodesOfType(event_network_nodes, event_def.target_type)
       IN \E emitted \in Bernoulli(event_def.probability) :
            IF ~emitted \/ target_nodes = <<>>
            THEN /\ sim_pc' = AfterScenarioStep(sim_pc)
                 /\ UNCHANGED <<now, events, event_network_nodes>>
            ELSE /\ EventRoom
                 /\ now' = now + 1
                 /\ \E k \in 1..Len(target_nodes) :
                      \E details \in DetailDraws(event_def.type,
                                                 event_network_nodes[target_nodes[k]]) :
                        LET r == generate_event(events, event_network_nodes, event_def.type,
                                                target_nodes[k], details, now')
                        IN /\ events' = r.events
                           /\ event_network_nodes' = r.nodes
                           /\ sim_pc' = AfterScenarioStep(Emitted(sim_pc, Len(r.events)))
    /\ UNCHANGED <<outsideEvents, lt_pc, fo_pc, cmd_ret>>

\* list(EventType).
EventTypes ==
    << "NODE_FAILURE", "SERVICE_FAILURE", "NETWORK_CONGESTION", "SECURITY_BREACH",
       "RESOURCE_EXHAUSTION", "CONFIGURATION_CHANGE", "FAILOVER", "RECOVERY" >>

\* random.choice(list(EventType)): the types drawn, by index.
EventTypeDraws == {1, 2, 8}

\* A tick begins with _generate_random_events: num_events = random.randint(1, 3).
RandomEventsBegin ==
    /\ EventsIdle
    /\ \E num_events \in 1..3 : sim_pc' = [at |-> "random", left |-> num_events]
    /\ UNCHANGED <<now, outsideEvents, events, event_network_nodes, lt_pc, fo_pc, cmd_ret>>

\* One iteration of "for _ in range(num_events)" (lines 130-134).
RandomEvent ==
    /\ sim_pc.at = "random"
    /\ EventRoom
    /\ now' = now + 1
    /\ \E e \in EventTypeDraws, ti \in 1..Len(event_network_nodes) :
         \E details \in DetailDraws(EventTypes[e], event_network_nodes[ti]) :
           LET r == generate_event(events, event_network_nodes, EventTypes[e], ti, details, now')
           IN /\ events' = r.events
              /\ event_network_nodes' = r.nodes
    /\ sim_pc' = IF sim_pc.left > 1 THEN [sim_pc EXCEPT !.left = sim_pc.left - 1]
                 ELSE [at |-> "sleep"]
    /\ UNCHANGED <<outsideEvents, lt_pc, fo_pc, cmd_ret>>

\* ------------------------------------------------------------ run_load_test
\* The arguments drawn for the commands.
NodeTypeDraws == {"gNB", "UPF"}
LoadTestDraws ==
    { [target_node_type |-> "gNB", intensity |-> "low"],
      [target_node_type |-> "gNB", intensity |-> "high"],
      [target_node_type |-> "gNB", intensity |-> "extreme"],
      [target_node_type |-> "AMF", intensity |-> "medium"],
      [target_node_type |-> "UPF", intensity |-> "high"] }
DurationDraws == {120}

\* The intensities that lines 216-230 accept.
IntensitiesWithExtreme == {"low", "medium", "high", "extreme"}

Intensities == {"low", "medium", "high"}

\* The loads drawn for a valid intensity (lines 216-227).
LoadDraws(intensity) ==
    IF intensity = "low"
    THEN [cpu_load |-> 5000, memory_load |-> 4000, connection_load |-> 100]
    ELSE IF intensity = "medium"
    THEN [cpu_load |-> 7000, memory_load |-> 6000, connection_load |-> 500]
    ELSE [cpu_load |-> 8500, memory_load |-> 8000, connection_load |-> 2000]

TargetIds(nodes, target_nodes) == [k \in 1..Len(target_nodes) |-> nodes[target_nodes[k]].id]

\* load_test_event (lines 231-244).
LoadTestEvent(evs, nodes, target_node_type, target_nodes, duration_seconds, intensity, t) ==
    [id |-> NextEventId(evs), type |-> "LOAD_TEST", target_type |-> target_node_type,
     target_nodes |-> TargetIds(nodes, target_nodes), timestamp |-> t,
     details |-> [duration_seconds |-> duration_seconds, intensity |-> intensity,
                  cpu_load |-> LoadDraws(intensity).cpu_load,
                  memory_load |-> LoadDraws(intensity).memory_load,
                  connection_load |-> LoadDraws(intensity).connection_load]]

\* A completion event that carries its own id as original_test_id.
CompletionEventOwnId(evs, nodes, target_node_type, target_nodes, original_test_id, t) ==
    [id |-> NextEventId(evs), type |-> "LOAD_TEST_COMPLETED", target_type |-> target_node_type,
     target_nodes |-> TargetIds(nodes, target_nodes), timestamp |-> t,
     details |-> [original_test_id |-> NextEventId(evs), success |-> TRUE, failures |-> 0,
                  performance_impact |-> [latency_increase_percent |-> 1000,
                                          throughput_decrease_percent |-> 500,
                                          error_rate_increase_percent |-> 100]]]

\* completion_event (lines 252-268).
CompletionEvent(evs, nodes, target_node_type, target_nodes, original_test_id, t) ==
    [id |-> NextEventId(evs), type |-> "LOAD_TEST_COMPLETED", target_type |-> target_node_type,
     target_nodes |-> TargetIds(nodes, target_nodes), timestamp |-> t,
     details |-> [original_test_id |-> original_test_id, success |-> TRUE, failures |-> 0,
                  performance_impact |-> [latency_increase_percent |-> 1000,
                                          throughput_decrease_percent |-> 500,
                                          error_rate_increase_percent |-> 100]]]

\* run_load_test is called: lines 210-247, up to the sleep after the start event.
LoadTestCall ==
    /\ EventsIdle
    /\ \E draw \in LoadTestDraws, duration_seconds \in DurationDraws :
         LET target_node_type == draw.target_node_type
             intensity == draw.intensity
             target_nodes == NodesOfType(event_network_nodes, target_node_type)
             args == [target_node_type |-> target_node_type,
                      duration_seconds |-> duration_seconds, intensity |-> intensity]
         IN IF target_nodes = <<>> \/ intensity \notin Intensities
            THEN /\ cmd_ret' = [op |-> "run_load_test", args |-> args,
                                returned_false |-> TRUE, ret |-> FALSE]
                 /\ UNCHANGED <<now, events, lt_pc>>
            ELSE /\ EventRoom
                 /\ now' = now + 1
                 /\ events' = Append(events,
                        LoadTestEvent(events, event_network_nodes, target_node_type,
                                      target_nodes, duration_seconds, intensity, now'))
                 /\ lt_pc' = [at |-> IF intensity = "high" THEN "stress" ELSE "complete",
                              target_type |-> target_node_type, target_nodes |-> target_nodes,
                              k |-> 1, original_test_id |-> NextEventId(events),
                              slept |-> TRUE, args |-> args]
                 /\ UNCHANGED cmd_ret
    /\ UNCHANGED <<outsideEvents, event_network_nodes, sim_pc, fo_pc>>

\* One iteration of "for node in target_nodes" of a high-intensity test
\* (lines 249-251).
LoadTestStress ==
    /\ lt_pc.at = "stress"
    /\ \E exhausted \in Bernoulli(70) :
         IF exhausted
         THEN /\ EventRoom
              /\ now' = IF lt_pc.slept THEN now + 1 ELSE now
              /\ \E details \in DetailDraws("RESOURCE_EXHAUSTION",
                                            event_network_nodes[lt_pc.target_nodes[lt_pc.k]]) :
                   LET r == generate_event(events, event_network_nodes, "RESOURCE_EXHAUSTION",
                                           lt_pc.target_nodes[lt_pc.k], details, now')
                   IN /\ events' = r.events
                      /\ event_network_nodes' = r.nodes
              /\ lt_pc' = [lt_pc EXCEPT !.slept = FALSE,
                                        !.k = lt_pc.k + 1,
                                        !.at = IF lt_pc.k < Len(lt_pc.target_nodes)
                                               THEN "stress" ELSE "complete"]
         ELSE /\ lt_pc' = [lt_pc EXCEPT !.k = lt_pc.k + 1,
                                        !.at = IF lt_pc.k < Len(lt_pc.target_nodes)
                                               THEN "stress" ELSE "complete"]
              /\ UNCHANGED <<now, events, event_network_nodes>>
    /\ UNCHANGED <<outsideEvents, sim_pc, fo_pc, cmd_ret>>

\* The completion event and the return (lines 252-271).
LoadTestComplete ==
    /\ lt_pc.at = "complete"
    /\ EventRoom
    /\ now' = IF lt_pc.slept THEN now + 1 ELSE now
    /\ events' = Append(events,
           CompletionEvent(events, event_network_nodes, lt_pc.target_type, lt_pc.target_nodes,
                           lt_pc.original_test_id, now'))
    /\ cmd_ret' = [op |-> "run_load_test", args |-> lt_pc.args,
                   returned_false |-> FALSE, ret |-> TRUE]
    /\ lt_pc' = [at |-> "none"]
    /\ UNCHANGED <<outsideEvents, event_network_nodes, sim_pc, fo_pc>>

\* ----------------------------------------------- simulate_failover_scenario
\* detection_time = random.uniform(1, 5), in hundredths of a second.
DetectionTimeDraws == {250}

\* simulate_failover_scenario is called: lines 272-279, the NODE_FAILURE event.
FailoverCall ==
    /\ EventsIdle
    /\ \E node_type \in NodeTypeDraws :
         LET target_nodes == NodesOfType(event_network_nodes, node_type)
         IN IF target_nodes = <<>>
            THEN /\ cmd_ret' = [op |-> "simulate_failover_scenario",
                                args |-> [node_type |-> node_type],
                                returned_false |-> TRUE, ret |-> FALSE]
                 /\ UNCHANGED <<now, events, event_network_nodes, fo_pc>>
            ELSE /\ EventRoom
                 /\ now' = now + 1
                 /\ \E k \in 1..Len(target_nodes), detection_time \in DetectionTimeDraws :
                      \E details \in DetailDraws("NODE_FAILURE",
                                                 event_network_nodes[target_nodes[k]]) :
                        LET r == generate_event(events, event_network_nodes, "NODE_FAILURE",
                                                target_nodes[k], details, now')
                        IN /\ events' = r.events
                           /\ event_network_nodes' = r.nodes
                           /\ fo_pc' = [at |-> "failover", target_node |-> target_nodes[k],
                                        failure_event |-> r.event,
                                        detection_time |-> detection_time,
                                        args |-> [node_type |-> node_type]]
                 /\ UNCHANGED cmd_ret
    /\ UNCHANGED <<outsideEvents, sim_pc, lt_pc>>

\* Lines 283-285: the FAILOVER event.
FailoverStep ==
    /\ fo_pc.at = "failover"
    /\ EventRoom
    /\ now' = now + 1
    /\ \E details \in DetailDraws("FAILOVER", event_network_nodes[fo_pc.target_node]) :
         LET r == generate_event(events, event_network_nodes, "FAILOVER", fo_pc.target_node,
                                 details, now')
         IN /\ events' = r.events
            /\ event_network_nodes' = r.nodes
            /\ fo_pc' = [at |-> "recovery", target_node |-> fo_pc.target_node,
                         failure_event |-> fo_pc.failure_event,
                         failover_event |-> r.event,
                         detection_time |-> fo_pc.detection_time, args |-> fo_pc.args]
    /\ UNCHANGED <<outsideEvents, sim_pc, lt_pc, cmd_ret>>

\* A result that lists the events from the last to the first.
ScenarioResultReversed(target_node, failure_event, failover_event, recovery_event, detection_time) ==
    [scenario |-> "Failover", target_node |-> target_node.id, target_type |-> target_node.type,
     events |-> << [id |-> recovery_event.id, type |-> recovery_event.type],
                   [id |-> failover_event.id, type |-> failover_event.type],
                   [id |-> failure_event.id, type |-> failure_event.type] >>,
     metrics |-> [detection_time_seconds |-> detection_time,
                  failover_time_seconds |-> failover_event.details.failover_duration_seconds,
                  recovery_time_seconds |-> recovery_event.details.recovery_duration_seconds,
                  total_downtime_seconds |->
                      detection_time + 100 * failover_event.details.failover_duration_seconds,
                  recovery_success |-> recovery_event.details.success]]

\* A result whose recovery_success does not come from the RECOVERY event.
ScenarioResultAlwaysSuccess(target_node, failure_event, failover_event, recovery_event, detection_time) ==
    [scenario |-> "Failover", target_node |-> target_node.id, target_type |-> target_node.type,
     events |-> << [id |-> failure_event.id, type |-> failure_event.type],
                   [id |-> failover_event.id, type |-> failover_event.type],
                   [id |-> recovery_event.id, type |-> recovery_event.type] >>,
     metrics |-> [detection_time_seconds |-> detection_time,
                  failover_time_seconds |-> failover_event.details.failover_duration_seconds,
                  recovery_time_seconds |-> recovery_event.details.recovery_duration_seconds,
                  total_downtime_seconds |->
                      detection_time + 100 * failover_event.details.failover_duration_seconds,
                  recovery_success |-> TRUE]]

\* scenario_result (lines 289-305).
ScenarioResult(target_node, failure_event, failover_event, recovery_event, detection_time) ==
    [scenario |-> "Failover", target_node |-> target_node.id, target_type |-> target_node.type,
     events |-> << [id |-> failure_event.id, type |-> failure_event.type],
                   [id |-> failover_event.id, type |-> failover_event.type],
                   [id |-> recovery_event.id, type |-> recovery_event.type] >>,
     metrics |-> [detection_time_seconds |-> detection_time,
                  failover_time_seconds |-> failover_event.details.failover_duration_seconds,
                  recovery_time_seconds |-> recovery_event.details.recovery_duration_seconds,
                  total_downtime_seconds |->
                      detection_time + 100 * failover_event.details.failover_duration_seconds,
                  recovery_success |-> recovery_event.details.success]]

\* Lines 287-307: the RECOVERY event and the result. The draw of line 287 is
\* not used by the code.
FailoverRecovery ==
    /\ fo_pc.at = "recovery"
    /\ EventRoom
    /\ now' = now + 1
    /\ \E details \in DetailDraws("RECOVERY", event_network_nodes[fo_pc.target_node]) :
         LET r == generate_event(events, event_network_nodes, "RECOVERY", fo_pc.target_node,
                                 details, now')
         IN /\ events' = r.events
            /\ event_network_nodes' = r.nodes
            /\ cmd_ret' = [op |-> "simulate_failover_scenario", args |-> fo_pc.args,
                           returned_false |-> FALSE,
                           ret |-> ScenarioResult(r.nodes[fo_pc.target_node],
                                                  fo_pc.failure_event, fo_pc.failover_event,
                                                  r.event, fo_pc.detection_time)]
    /\ fo_pc' = [at |-> "none"]
    /\ UNCHANGED <<outsideEvents, sim_pc, lt_pc>>

NextEvent ==
    \/ ScenarioBegin
    \/ ScenarioStep
    \/ RandomEventsBegin
    \/ RandomEvent
    \/ LoadTestCall
    \/ LoadTestStress
    \/ LoadTestComplete
    \/ FailoverCall
    \/ FailoverStep
    \/ FailoverRecovery

\* ------------------------------------------------------------ KPI monitoring
\* Values are in hundredths of the KPI's unit.
kpi_definitions == <<
    [id |-> "node_availability", name |-> "Node Availability", unit |-> "%",
     target |-> 9999, warning_threshold |-> 9990, critical_threshold |-> 9950,
     category |-> "availability"],
    [id |-> "service_latency", name |-> "Service Latency", unit |-> "ms",
     target |-> 5000, warning_threshold |-> 10000, critical_threshold |-> 20000,
     category |-> "performance"],
    [id |-> "error_rate", name |-> "Error Rate", unit |-> "%",
     target |-> 10, warning_threshold |-> 100, critical_threshold |-> 500,
     category |-> "quality"],
    [id |-> "cpu_utilization", name |-> "CPU Utilization", unit |-> "%",
     target |-> 6000, warning_threshold |-> 8000, critical_threshold |-> 9000,
     category |-> "resource"],
    [id |-> "memory_utilization", name |-> "Memory Utilization", unit |-> "%",
     target |-> 7000, warning_threshold |-> 8500, critical_threshold |-> 9500,
     category |-> "resource"],
    [id |-> "throughput", name |-> "Network Throughput", unit |-> "Mbps",
     target |-> 100000, warning_threshold |-> 50000, critical_threshold |-> 10000,
     category |-> "performance"],
    [id |-> "connection_success_rate", name |-> "Connection Success Rate", unit |-> "%",
     target |-> 9990, warning_threshold |-> 9900, critical_threshold |-> 9500,
     category |-> "quality"],
    [id |-> "recovery_time", name |-> "Recovery Time", unit |-> "seconds",
     target |-> 3000, warning_threshold |-> 6000, critical_threshold |-> 30000,
     category |-> "availability"] >>

KpiIds == {kpi_definitions[k].id : k \in 1..Len(kpi_definitions)}

\* deque(maxlen=1000)
WindowCapacity == 1000

\* KPIMonitoring.network_nodes: the module's own list, which nothing writes.
kpi_network_nodes == InitNetworkNodes

\* kpi_data after construction: per KPI a defaultdict without keys.  A
\* defaultdict is the sequence of its (node_id, deque) items in insertion order.
EmptyKpiData == [k \in KpiIds |-> <<>>]

\* Position of node_id among the keys of defaultdict d, 0 if it is no key.
KeyIndex(d, node_id) ==
    IF \E i \in 1..Len(d) : d[i].node_id = node_id
    THEN CHOOSE i \in 1..Len(d) : d[i].node_id = node_id
    ELSE 0

\* d[node_id] read without creating the key.
Points(d, node_id) ==
    IF KeyIndex(d, node_id) = 0 THEN <<>> ELSE d[KeyIndex(d, node_id)].points

\* deque.append on a deque of maxlen WindowCapacity.
DequeAppendNoEvict(points, x) == Append(points, x)

DequeAppend(points, x) ==
    IF Len(points) >= WindowCapacity THEN Append(Tail(points), x) ELSE Append(points, x)

\* self.kpi_data[kpi_id][node_id].append({"timestamp": ..., "value": ...})
AppendSample(data, kpi_id, node_id, timestamp, value) ==
    LET d == data[kpi_id]
        i == KeyIndex(d, node_id)
        sample == [timestamp |-> timestamp, value |-> value]
    IN [data EXCEPT ![kpi_id] =
           IF i = 0
           THEN Append(d, [node_id |-> node_id, points |-> DequeAppend(<<>>, sample)])
           ELSE [d EXCEPT ![i].points = DequeAppend(d[i].points, sample)]]

\* _collect_node_kpis without the append of line 73.
collect_node_kpis_skipping_throughput(data, node, draw, t) ==
    LET node_id == node.id
        availability == IF node.status = "active" THEN 10000 ELSE 0
        d1 == AppendSample(data, "node_availability", node_id, t, availability)
        d2 == AppendSample(d1, "cpu_utilization", node_id, t, draw[1])
        d3 == AppendSample(d2, "memory_utilization", node_id, t, draw[2])
        d4 == AppendSample(d3, "service_latency", node_id, t, draw[3])
        d5 == AppendSample(d4, "error_rate", node_id, t, draw[4])
        d7 == AppendSample(d5, "connection_success_rate", node_id, t, draw[6])
    IN IF node.status = "active" /\ draw[7] # <<>>
       THEN AppendSample(d7, "recovery_time", node_id, t, draw[7][1])
       ELSE d7

\* _collect_node_kpis(node) at time t; draw holds the values of the uniform
\* draws in the order of the code, the last one in a sequence that is empty
\* when the trial of line 76 fails.
collect_node_kpis(data, node, draw, t) ==
    LET node_id == node.id
        availability == IF node.status = "active" THEN 10000 ELSE 0
        d1 == AppendSample(data, "node_availability", node_id, t, availability)
        d2 == AppendSample(d1, "cpu_utilization", node_id, t, draw[1])
        d3 == AppendSample(d2, "memory_utilization", node_id, t, draw[2])
        d4 == AppendSample(d3, "service_latency", node_id, t, draw[3])
        d5 == AppendSample(d4, "error_rate", node_id, t, draw[4])
        d6 == AppendSample(d5, "throughput", node_id, t, draw[5])
        d7 == AppendSample(d6, "connection_success_rate", node_id, t, draw[6])
    IN IF node.status = "active" /\ draw[7] # <<>>
       THEN AppendSample(d7, "recovery_time", node_id, t, draw[7][1])
       ELSE d7

\* Lines 92-105: the severity of the latest value of a KPI.
SeverityInclusive(kpi, value) ==
    IF kpi.category \in {"availability", "quality"}
    THEN IF value <= kpi.critical_threshold THEN "CRITICAL"
         ELSE IF value <= kpi.warning_threshold THEN "WARNING"
         ELSE "OK"
    ELSE IF value >= kpi.critical_threshold THEN "CRITICAL"
         ELSE IF value >= kpi.warning_threshold THEN "WARNING"
         ELSE "OK"

Severity(kpi, value) ==
    IF kpi.category \in {"availability", "quality"}
    THEN IF value < kpi.critical_threshold THEN "CRITICAL"
         ELSE IF value < kpi.warning_threshold THEN "WARNING"
         ELSE "OK"
    ELSE IF value > kpi.critical_threshold THEN "CRITICAL"
         ELSE IF value > kpi.warning_threshold THEN "WARNING"
         ELSE "OK"

\* Lines 87-115 with the first sample of a window read in place of the last.
RECURSIVE IssuesOfNodesOldestSample(_, _, _)
IssuesOfNodesOldestSample(kpi, d, i) ==
    IF i > Len(d) THEN <<>>
    ELSE LET data_points == d[i].points
             oldest == data_points[1]
             severity == Severity(kpi, oldest.value)
         IN (IF data_points = <<>> THEN <<>>
             ELSE IF severity # "OK"
             THEN << [node_id |-> d[i].node_id, kpi_id |-> kpi.id, kpi_name |-> kpi.name,
                      value |-> oldest.value, unit |-> kpi.unit, severity |-> severity,
                      timestamp |-> oldest.timestamp] >>
             ELSE <<>>)
            \o IssuesOfNodesOldestSample(kpi, d, i + 1)

\* Lines 87-115: the issues of one KPI, over the items of its defaultdict
\* from item i on.
RECURSIVE IssuesOfNodes(_, _, _)
IssuesOfNodes(kpi, d, i) ==
    IF i > Len(d) THEN <<>>
    ELSE LET data_points == d[i].points
             latest == data_points[Len(data_points)]
             severity == Severity(kpi, latest.value)
         IN (IF data_points = <<>> THEN <<>>
             ELSE IF severity # "OK"
             THEN << [node_id |-> d[i].node_id, kpi_id |-> kpi.id, kpi_name |-> kpi.name,
                      value |-> latest.value, unit |-> kpi.unit, severity |-> severity,
                      timestamp |-> latest.timestamp] >>
             ELSE <<>>)
            \o IssuesOfNodes(kpi, d, i + 1)

\* Lines 83-115 from definition k on.
RECURSIVE IssuesFrom(_, _)
IssuesFrom(data, k) ==
    IF k > Len(kpi_definitions) THEN <<>>
    ELSE IssuesOfNodes(kpi_definitions[k], data[kpi_definitions[k].id], 1)
         \o IssuesFrom(data, k + 1)

\* _analyze_kpi_data: the list it returns.
analyze_kpi_data(data) == IssuesFrom(data, 1)

\* The uniform draws of one _collect_node_kpis: cpu, memory, latency, error
\* rate, throughput, success rate, recovery time.
QuietDraw == <<6000, 7000, 5000, 10, 100000, 9990, <<3000>> >>

KpiDraws == {QuietDraw,
             <<9120, 8610, 15000, 600, 40000, 9400, <<>> >>}

\* Lines 55-56 at time t with the quiet draw for the nodes from i on.
RECURSIVE QuietCollect(_, _, _)
QuietCollect(data, i, t) ==
    IF i > Len(kpi_network_nodes) THEN data
    ELSE QuietCollect(collect_node_kpis(data, kpi_network_nodes[i], QuietDraw, t), i + 1, t)

\* kpi_data after the ticks at times lo..hi, each with the quiet draw.  The
\* ticks of the first half are evaluated (the test on the keys) before those
\* of the second half are begun.
RECURSIVE QuietTicks(_, _, _)
QuietTicks(data, lo, hi) ==
    IF lo > hi THEN data
    ELSE IF lo = hi THEN QuietCollect(data, 1, lo)
    ELSE LET first == QuietTicks(data, lo, (lo + hi) \div 2)
         IN IF DOMAIN first = KpiIds
            THEN QuietTicks(first, (lo + hi) \div 2 + 1, hi)
            ELSE first

\* The collection loop is followed for this many ticks.
KpiTicks == 2

\* The numbers of ticks the loop has run when it is followed: none, and one
\* less than fill a window.
CollectedTicks == {0, WindowCapacity - 1}

\* kpi-collection-thread: the loop wakes up.
CollectionWake ==
    /\ kpi_pc = 0
    /\ \E t \in CollectedTicks : t <= now /\ now < t + KpiTicks
    /\ now' = now + 1
    /\ kpi_pc' = 1
    /\ UNCHANGED <<outsideKpi, kpi_data, kpi_issues>>

\* kpi-collection-thread: _collect_node_kpis of the next node.
CollectNode ==
    /\ kpi_pc \in 1..Len(kpi_network_nodes)
    /\ \E draw \in KpiDraws :
         kpi_data' = collect_node_kpis(kpi_data, kpi_network_nodes[kpi_pc], draw, now)
    /\ kpi_pc' = kpi_pc + 1
    /\ UNCHANGED <<now, outsideKpi, kpi_issues>>

\* kpi-collection-thread: _analyze_kpi_data, then the loop sleeps.
AnalyzeKpiData ==
    /\ kpi_pc = Len(kpi_network_nodes) + 1
    /\ kpi_issues' = analyze_kpi_data(kpi_data)
    /\ kpi_pc' = 0
    /\ UNCHANGED <<now, outsideKpi, kpi_data>>

NextKPI ==
    \/ CollectionWake
    \/ CollectNode
    \/ AnalyzeKpiData

\* ------------------------------------------------------ the KPI queries
\* An optional argument is <<>> for None and <<x>> for the value x.  Python
\* takes None, the empty string and 0 as false.
TruthyId(arg) == arg # <<>> /\ arg[1] # ""

TruthyRange(arg) == arg # <<>> /\ arg[1] # 0

\* The keys of self.kpi_data in the order of the dict.
KpiIdSeq == [k \in 1..Len(kpi_definitions) |-> kpi_definitions[k].id]

\* Lines 140-145: the samples of a window kept for time_range at time t.
\* Timestamps are compared as ISO strings, which order as the times do.
FilteredData(data_points, time_range, t) ==
    IF TruthyRange(time_range)
    THEN SelectSeq(data_points, LAMBDA dp : dp.timestamp >= t - time_range[1])
    ELSE data_points

\* Lines 131-147 for the KPIs kpis[i..]: the items of result.  node_id is the
\* variable of that name, which the loop of line 139 assigns as well.
RECURSIVE KpiDataFrom(_, _, _, _, _, _)
KpiDataFrom(data, kpis, i, node_id, time_range, t) ==
    IF i > Len(kpis) THEN <<>>
    ELSE LET node_data == data[kpis[i]]
             filtered_node_data ==
                 IF TruthyId(node_id)
                 THEN IF KeyIndex(node_data, node_id[1]) = 0 THEN <<>>
                      ELSE << node_data[KeyIndex(node_data, node_id[1])] >>
                 ELSE node_data
             kept == [j \in 1..Len(filtered_node_data) |->
                         [node_id |-> filtered_node_data[j].node_id,
                          points |-> FilteredData(filtered_node_data[j].points,
                                                  time_range, t)]]
             after == IF filtered_node_data = <<>> THEN node_id
                      ELSE << filtered_node_data[Len(filtered_node_data)].node_id >>
         IN << [kpi_id |-> kpis[i],
                nodes |-> SelectSeq(kept, LAMBDA e : e.points # <<>>)] >>
            \o KpiDataFrom(data, kpis, i + 1, after, time_range, t)

\* get_kpi_data(kpi_id, node_id, time_range) at time t: the dict returned, as
\* the sequence of its items.
get_kpi_data(data, kpi_id, node_id, time_range, t) ==
    IF TruthyId(kpi_id)
    THEN IF kpi_id[1] \notin DOMAIN data THEN <<>>
         ELSE KpiDataFrom(data, <<kpi_id[1]>>, 1, node_id, time_range, t)
    ELSE KpiDataFrom(data, KpiIdSeq, 1, node_id, time_range, t)

RECURSIVE SumValues(_)
SumValues(values) ==
    IF values = <<>> THEN 0 ELSE values[1] + SumValues(Tail(values))

\* Lines 157-165: the summary of a window that is not empty.  avg is the
\* quotient sum(values) / len(values), kept as numerator and denominator.
SummaryOfFirstAsLatest(data_points) ==
    LET values == [j \in 1..Len(data_points) |-> data_points[j].value]
    IN [min |-> CHOOSE v \in {values[j] : j \in 1..Len(values)} :
                   \A j \in 1..Len(values) : v <= values[j],
        max |-> CHOOSE v \in {values[j] : j \in 1..Len(values)} :
                   \A j \in 1..Len(values) : v >= values[j],
        avg |-> [num |-> SumValues(values), den |-> Len(values)],
        count |-> Len(values),
        latest |-> data_points[1].value,
        latest_timestamp |-> data_points[1].timestamp]

SummaryOf(data_points) ==
    LET values == [j \in 1..Len(data_points) |-> data_points[j].value]
    IN [min |-> CHOOSE v \in {values[j] : j \in 1..Len(values)} :
                   \A j \in 1..Len(values) : v <= values[j],
        max |-> CHOOSE v \in {values[j] : j \in 1..Len(values)} :
                   \A j \in 1..Len(values) : v >= values[j],
        avg |-> [num |-> SumValues(values), den |-> Len(values)],
        count |-> Len(values),
        latest |-> data_points[Len(data_points)].value,
        latest_timestamp |-> data_points[Len(data_points)].timestamp]

\* get_kpi_summary(kpi_id, node_id, time_range) at time t.
get_kpi_summary(data, kpi_id, node_id, time_range, t) ==
    LET result == get_kpi_data(data, kpi_id, node_id, time_range, t)
    IN [k \in 1..Len(result) |->
           [kpi_id |-> result[k].kpi_id,
            nodes |-> [j \in 1..Len(SelectSeq(result[k].nodes, LAMBDA e : e.points # <<>>)) |->
                          [node_id |-> SelectSeq(result[k].nodes,
                                                 LAMBDA e : e.points # <<>>)[j].node_id,
                           summary |-> SummaryOf(SelectSeq(result[k].nodes,
                                                 LAMBDA e : e.points # <<>>)[j].points)]]]]

\* The arguments drawn for the queries.
KpiIdDraws == {<<>>, <<"node_availability">>, <<"cpu_utilization">>, <<"jitter">>}
NodeIdDraws == {<<>>, <<"smf-009">>} \cup {<<kpi_network_nodes[i].id>> : i \in NodeIdx}
TimeRangeDraws == {<<>>, <<0>>, <<1>>}

\* A call get_kpi_data(kpi_id, node_id, time_range).
CallGetKpiData ==
    /\ \E kpi_id \in KpiIdDraws, node_id \in NodeIdDraws, time_range \in TimeRangeDraws :
         api_call' = [op |-> "get_kpi_data", kpi_id |-> kpi_id, node_id |-> node_id,
                      time_range |-> time_range, at |-> now,
                      ret |-> get_kpi_data(kpi_data, kpi_id, node_id, time_range, now)]
    /\ UNCHANGED <<now, oamVars, loopVars, thVars, eventVars, ev_building, kpiVars, lifeVars>>

\* A call get_kpi_summary(kpi_id, node_id, time_range).
CallGetKpiSummary ==
    /\ \E kpi_id \in KpiIdDraws, node_id \in NodeIdDraws, time_range \in TimeRangeDraws :
         api_call' = [op |-> "get_kpi_summary", kpi_id |-> kpi_id, node_id |-> node_id,
                      time_range |-> time_range, at |-> now,
                      ret |-> get_kpi_summary(kpi_data, kpi_id, node_id, time_range, now)]
    /\ UNCHANGED <<now, oamVars, loopVars, thVars, eventVars, ev_building, kpiVars, lifeVars>>

\* The collection loop is followed up to one query: a query changes nothing
\* of the monitor, so what a query returns does not depend on earlier queries.
NoQueryYet == api_call.op = "none"

CollectionBeforeQuery == NoQueryYet /\ NextKPI

QueryKpiData == NoQueryYet /\ CallGetKpiData

QueryKpiSummary == NoQueryYet /\ CallGetKpiSummary

NextKpiQuery ==
    \/ CollectionBeforeQuery
    \/ QueryKpiData
    \/ QueryKpiSummary

\* ------------------------------------------------- the detection loops, one
\* step at a time
InitKPI ==
    /\ kpi_data = EmptyKpiData
    /\ kpi_pc = 0
    /\ kpi_issues = <<>>

InitOutsideKPI ==
    /\ alarms = NoAlarms
    /\ alarm_id_counter = 1
    /\ oam_network_nodes = InitNetworkNodes
    /\ id_log = <<>>
    /\ hc_i = 0
    /\ fg_pc = "sleep"
    /\ fg_i = 1
    /\ api_call = [op |-> "none"]
    /\ th_pc = [t \in Threads |-> "idle"]
    /\ th_calls = [t \in Threads |-> <<>>]
    /\ th_alarm_id = [t \in Threads |-> 0]
    /\ th_loaded = [t \in Threads |-> 0]
    /\ th_snapshot = <<>>
    /\ events = <<>>
    /\ event_network_nodes = InitNetworkNodes
    /\ sim_pc = [at |-> "sleep"]
    /\ lt_pc = [at |-> "none"]
    /\ fo_pc = [at |-> "none"]
    /\ cmd_ret = [op |-> "none"]
    /\ ev_building = [t \in EventThreads |-> NotBuilding]
    /\ running = [c \in {"oam", "kpi", "event"} |-> FALSE]
    /\ loop_at = [t \in Threads \cup {"kpi-collection-thread", "event-simulation-thread"}
                    |-> "unstarted"]
    /\ main_pc = [at |-> "start", i |-> 1]
    /\ loop_instances = [t \in Threads \cup {"kpi-collection-thread", "event-simulation-thread"}
                           |-> [check |-> 0, tick |-> 0, sleep |-> 0]]

Init ==
    /\ now = 0
    /\ InitKPI
    /\ InitOutsideKPI

Next ==
    \/ HealthCheckWake
    \/ HealthCheckNode
    \/ FaultGenWake
    \/ FaultNode
    \/ RecoverTrial
    \/ LogScanTick

Spec == Init /\ [][Next]_vars

\* ===================================================================== C1
\* C1: every alarm created by a call executed on its own gets an id strictly
\* greater than every id returned before it, so no id is assigned twice, also
\* not the id of an alarm cleared in the meantime.
AlarmIdsStrictlyIncreasing ==
    \A i \in 1..Len(id_log) : \A j \in 1..Len(id_log) : i < j => id_log[i] < id_log[j]

\* An alarm was cleared and a later tick created another alarm.
AlarmCreatedAfterClear ==
    \E i \in DOMAIN alarms : \E j \in DOMAIN alarms :
        /\ HasClearedTime(alarms[i])
        /\ alarms[j].raised_time > alarms[i].cleared_time
        /\ Len(id_log) >= 2

\* ===================================================================== C6
\* C6: once an alarm has a cleared_time, every later state shows the same
\* cleared_time for it.
ClearedTimeSetOnce ==
    [][\A id \in DOMAIN alarms :
          HasClearedTime(alarms[id]) =>
              /\ id \in DOMAIN alarms'
              /\ HasClearedTime(alarms'[id])
              /\ alarms'[id].cleared_time = alarms[id].cleared_time]_vars

\* ===================================================================== C7
\* The step in which node i of the alarm subsystem's list recovers.
Recovers(i) ==
    /\ oam_network_nodes[i].status = "down"
    /\ oam_network_nodes'[i].status = "active"

RecoveryClearsEveryNodeDownAlarm ==
    [][\A i \in NodeIdx :
          Recovers(i) =>
              \A id \in DOMAIN alarms' :
                  ~ /\ alarms'[id].node_id = oam_network_nodes[i].id
                    /\ alarms'[id].description =
                           <<"Node ", oam_network_nodes[i].id, " is down">>
                    /\ alarms'[id].status = "active"]_vars

\* Two "is down" alarms of one node, raised in different ticks, were cleared
\* by the same recovery.
DuplicateNodeDownAlarmsCleared ==
    \E a \in DOMAIN alarms : \E b \in DOMAIN alarms :
        /\ a # b
        /\ alarms[a].node_id = alarms[b].node_id
        /\ alarms[a].description = <<"Node ", alarms[a].node_id, " is down">>
        /\ alarms[b].description = alarms[a].description
        /\ alarms[a].raised_time < alarms[b].raised_time
        /\ alarms[a].status = "cleared"
        /\ alarms[b].status = "cleared"
        /\ alarms[a].cleared_time = alarms[b].cleared_time

\* ------------------------------------------- direct calls of the alarm store
\* The arguments the loops pass to _create_alarm for node i.
AlarmCallDraws(i) ==
    {FaultCall(oam_network_nodes[i], fault_types[j]) : j \in 1..Len(fault_types)}
    \cup {HealthCalls(oam_network_nodes[i], 9120, 5000, 5000)[1]}

\* The status of alarm_id in the store: "absent", "active" or "cleared".
StatusIn(store, alarm_id) ==
    IF alarm_id \in DOMAIN store THEN store[alarm_id].status ELSE "absent"

\* The clock advances.
ClockTick ==
    /\ now < MaxTime
    /\ now' = now + 1
    /\ UNCHANGED <<oamVars, loopVars, outsideLoops>>

\* A call _create_alarm(node_id, alarm_type, severity, description).
CallCreateAlarm ==
    /\ Room(1)
    /\ \E i \in NodeIdx : \E c \in AlarmCallDraws(i) :
         LET r == create_alarm(alarms, alarm_id_counter, c.node_id, c.type, c.severity,
                               c.description, now)
         IN /\ alarms' = r.alarms
            /\ alarm_id_counter' = r.alarm_id_counter
            /\ id_log' = Append(id_log, r.ret)
            /\ api_call' = [op |-> "create", ret |-> r.ret]
    /\ UNCHANGED <<now, oam_network_nodes, loopVars, thVars, eventVars, ev_building,
                   kpiVars, lifeVars>>

\* A call _clear_alarm(alarm_id); the record keeps the status the alarm had
\* and whether the call changed the store.
CallClearAlarm ==
    /\ \E alarm_id \in 1..(MaxAlarms + 1) :
         LET r == clear_alarm(alarms, alarm_id, now)
         IN /\ alarms' = r.alarms
            /\ api_call' = [op |-> "clear", alarm_id |-> alarm_id, ret |-> r.ret,
                            was |-> StatusIn(alarms, alarm_id),
                            changed |-> r.alarms # alarms]
    /\ UNCHANGED <<now, alarm_id_counter, oam_network_nodes, id_log, loopVars, thVars,
                   eventVars, ev_building, kpiVars, lifeVars>>

NextAlarmAPI ==
    \/ CallCreateAlarm
    \/ CallClearAlarm
    \/ ClockTick

SpecAlarmAPI == Init /\ [][NextAlarmAPI]_vars

\* ===================================================================== C5
\* C5: _clear_alarm returns false and leaves the store as it was when the id
\* is absent or the alarm is already cleared, and returns true only when it
\* turns an active alarm into a cleared one.
ClearAlarmNoOpUnlessActive ==
    api_call.op = "clear" =>
        /\ api_call.was \in {"absent", "cleared"} =>
               (api_call.ret = FALSE /\ ~api_call.changed)
        /\ api_call.ret = TRUE =>
               (api_call.was = "active" /\ StatusIn(alarms, api_call.alarm_id) = "cleared")

\* ---------------------------------- the detection loops as concurrent threads
\* The three threads of OAMAutomation.start run without a lock; a thread switch
\* can fall between any two reads or writes of shared attributes, so
\* _create_alarm is the steps Line149, Line150Load, Line150Store, Line160.
seqVars == <<loopVars, api_call, eventVars, ev_building, kpiVars, lifeVars>>

Idle(t) == th_pc[t] = "idle" /\ th_calls[t] = <<>>

\* The threads make no more than MaxAlarms calls of _create_alarm in all:
\* those that returned and those pending.
RECURSIVE PendingCalls(_)
PendingCalls(S) ==
    IF S = {} THEN 0
    ELSE LET t == CHOOSE x \in S : TRUE IN Len(th_calls[t]) + PendingCalls(S \ {t})

CallBudget(k) == Len(id_log) + PendingCalls(Threads) + k <= MaxAlarms

\* health-check-thread: one node's draws are made, its calls are pending.
HealthThreadNode ==
    /\ Idle("health-check-thread")
    /\ \E i \in NodeIdx, draw \in HealthDraws :
         LET calls == HealthCalls(oam_network_nodes[i], draw[1], draw[2], draw[3])
         IN /\ CallBudget(Len(calls))
            /\ th_calls' = [th_calls EXCEPT !["health-check-thread"] = calls]
    /\ UNCHANGED <<now, oamVars, seqVars, th_pc, th_alarm_id, th_loaded, th_snapshot>>

\* fault-gen-thread: one node's trials are made, its calls are pending; only
\* this thread reads or writes the node status, so line 93 is part of the step.
FaultThreadNode ==
    /\ Idle("fault-gen-thread")
    /\ \E i \in NodeIdx, fires \in FaultOutcomes :
         LET calls == FaultCalls(oam_network_nodes[i], fires, 1)
         IN /\ CallBudget(Len(calls))
            /\ th_calls' = [th_calls EXCEPT !["fault-gen-thread"] = calls]
            /\ oam_network_nodes' = FaultStatuses(oam_network_nodes, i, fires, 1)
    /\ UNCHANGED <<now, alarms, alarm_id_counter, id_log, seqVars,
                   th_pc, th_alarm_id, th_loaded, th_snapshot>>

\* fault-gen-thread: a down node recovers (lines 104-107); the snapshot keeps
\* the ids whose alarm passes the test of line 108.
FaultThreadRecover ==
    /\ Idle("fault-gen-thread")
    /\ \E i \in NodeIdx :
         /\ oam_network_nodes[i].status = "down"
         /\ oam_network_nodes' = [oam_network_nodes EXCEPT ![i].status = "active"]
         /\ th_snapshot' = SelectSeq(AlarmIds(DOMAIN alarms),
                               LAMBDA id : RecoveryMatch(alarms[id], oam_network_nodes[i]))
    /\ th_pc' = [th_pc EXCEPT !["fault-gen-thread"] = "clearing"]
    /\ UNCHANGED <<now, alarms, alarm_id_counter, id_log, seqVars,
                   th_calls, th_alarm_id, th_loaded>>

\* fault-gen-thread: one _clear_alarm call of the recovery loop (line 109) up
\* to its first write, alarm["status"] = "cleared" (line 166), or the end of
\* the loop. The ids of the snapshot are keys of the store: no alarm is removed.
FaultThreadClear ==
    /\ th_pc["fault-gen-thread"] = "clearing"
    /\ IF th_snapshot = <<>>
       THEN /\ th_pc' = [th_pc EXCEPT !["fault-gen-thread"] = "idle"]
            /\ UNCHANGED alarms
       ELSE /\ alarms' = [alarms EXCEPT ![Head(th_snapshot)].status = "cleared"]
            /\ th_pc' = [th_pc EXCEPT !["fault-gen-thread"] = "line167"]
    /\ UNCHANGED <<now, alarm_id_counter, oam_network_nodes, id_log, seqVars,
                   th_calls, th_alarm_id, th_loaded, th_snapshot>>

\* fault-gen-thread: the second write of _clear_alarm,
\* alarm["cleared_time"] = datetime.now().isoformat() (line 167); the call
\* returns.
Line167 ==
    /\ th_pc["fault-gen-thread"] = "line167"
    /\ alarms' = [alarms EXCEPT ![Head(th_snapshot)] =
                     [cleared_time |-> now] @@ alarms[Head(th_snapshot)]]
    /\ th_snapshot' = Tail(th_snapshot)
    /\ th_pc' = [th_pc EXCEPT !["fault-gen-thread"] = "clearing"]
    /\ UNCHANGED <<now, alarm_id_counter, oam_network_nodes, id_log, seqVars,
                   th_calls, th_alarm_id, th_loaded>>

\* log-parse-thread: one mock line is drawn, its calls are pending.
LogThreadLine ==
    /\ Idle("log-parse-thread")
    /\ \E i \in NodeIdx, m \in MessageDraws :
         LET calls == LogCalls(oam_network_nodes[i], log_types[m], 1)
         IN /\ CallBudget(Len(calls))
            /\ th_calls' = [th_calls EXCEPT !["log-parse-thread"] = calls]
    /\ UNCHANGED <<now, oamVars, seqVars, th_pc, th_alarm_id, th_loaded, th_snapshot>>

\* Line 149: alarm_id = self.alarm_id_counter.
Line149(t) ==
    /\ th_pc[t] = "idle"
    /\ th_calls[t] # <<>>
    /\ th_alarm_id' = [th_alarm_id EXCEPT ![t] = alarm_id_counter]
    /\ th_pc' = [th_pc EXCEPT ![t] = "line150"]
    /\ UNCHANGED <<now, oamVars, seqVars, th_calls, th_loaded, th_snapshot>>

\* Line 150, the read of self.alarm_id_counter += 1.
Line150Load(t) ==
    /\ th_pc[t] = "line150"
    /\ th_loaded' = [th_loaded EXCEPT ![t] = alarm_id_counter]
    /\ th_pc' = [th_pc EXCEPT ![t] = "line150store"]
    /\ UNCHANGED <<now, oamVars, seqVars, th_calls, th_alarm_id, th_snapshot>>

\* Line 150, the write of self.alarm_id_counter += 1.
Line150Store(t) ==
    /\ th_pc[t] = "line150store"
    /\ alarm_id_counter' = th_loaded[t] + 1
    /\ th_pc' = [th_pc EXCEPT ![t] = "line160"]
    /\ UNCHANGED <<now, alarms, oam_network_nodes, id_log, seqVars,
                   th_calls, th_alarm_id, th_loaded, th_snapshot>>

\* Lines 151-162: self.alarms[alarm_id] = alarm, and the call returns alarm_id.
Line160(t) ==
    /\ th_pc[t] = "line160"
    /\ LET c == Head(th_calls[t])
           alarm == [id |-> th_alarm_id[t], node_id |-> c.node_id, type |-> c.type,
                     severity |-> c.severity, description |-> c.description,
                     raised_time |-> now, status |-> "active"]
       IN alarms' = (th_alarm_id[t] :> alarm) @@ alarms
    /\ id_log' = Append(id_log, th_alarm_id[t])
    /\ th_calls' = [th_calls EXCEPT ![t] = Tail(th_calls[t])]
    /\ th_pc' = [th_pc EXCEPT ![t] = "idle"]
    /\ UNCHANGED <<now, alarm_id_counter, oam_network_nodes, seqVars,
                   th_alarm_id, th_loaded, th_snapshot>>

NextOAMThreads ==
    \/ HealthThreadNode
    \/ FaultThreadNode
    \/ FaultThreadRecover
    \/ FaultThreadClear
    \/ Line167
    \/ LogThreadLine
    \/ \E t \in Threads : Line149(t)
    \/ \E t \in Threads : Line150Load(t)
    \/ \E t \in Threads : Line150Store(t)
    \/ \E t \in Threads : Line160(t)

SpecOAMThreads == Init /\ [][NextOAMThreads]_vars

\* ===================================================================== C3
\* C3: under every interleaving of the three loops no two _create_alarm calls
\* obtain the same id, and the store holds one alarm for every completed call.
AlarmIdAllocationAtomic ==
    /\ \A i \in 1..Len(id_log) : \A j \in 1..Len(id_log) : i # j => id_log[i] # id_log[j]
    /\ Cardinality(DOMAIN alarms) = Len(id_log)

\* ------------------------------------- the event paths as concurrent threads
\* The simulation loop and the callers of the two commands run without a lock.
\* An event's id is read from len(self.events) when the event is built (lines
\* 136, 232, 253) and the event is appended later (lines 197, 245, 269); a
\* thread switch can fall between the two, and for _generate_event also
\* before the write of the node status (lines 152, 196).

\* No more than MaxEvents events are built in all.
RECURSIVE BuildingCount(_)
BuildingCount(S) ==
    IF S = {} THEN 0
    ELSE LET t == CHOOSE x \in S : TRUE
         IN (IF ev_building[t] = NotBuilding THEN 0 ELSE 1) + BuildingCount(S \ {t})

BuildRoom == Len(events) + BuildingCount(EventThreads) < MaxEvents

NotBusy(t) == ev_building[t] = NotBuilding

\* Lines 136-146 of _generate_event: the event with its id and timestamp read.
BuiltEvent(evs, nodes, event_type, ti, details, t) ==
    [stage |-> "status", target |-> ti,
     event |-> [id |-> NextEventId(evs), type |-> event_type,
                target_node |-> nodes[ti].id, target_type |-> nodes[ti].type,
                timestamp |-> t, details |-> details]]

\* event-simulation-thread: a tick begins, with a scenario or with random events.
SimThreadBegin ==
    /\ sim_pc.at = "sleep"
    /\ \/ \E sc \in 1..Len(scenarios) :
            sim_pc' = [at |-> "scenario", scenario |-> sc, step |-> 1, emitted |-> <<>>]
       \/ \E num_events \in 1..3 : sim_pc' = [at |-> "random", left |-> num_events]
    /\ UNCHANGED <<now, outsideEventThreads, events, event_network_nodes, lt_pc, fo_pc,
                   cmd_ret, ev_building>>

\* event-simulation-thread: the next event of the tick is built, or the
\* scenario step is skipped.
SimThreadBuild ==
    /\ NotBusy("event-simulation-thread")
    /\ \/ /\ sim_pc.at = "scenario"
          /\ LET event_def == scenarios[sim_pc.scenario].events[sim_pc.step]
                 target_nodes == IF event_def.target_type = "ALL"
                                 THEN [i \in 1..Len(event_network_nodes) |-> i]
                                 ELSE NodesOfType(event_network_nodes, event_def.target_type)
             IN \E emitted \in Bernoulli(event_def.probability) :
                  IF ~emitted \/ target_nodes = <<>>
                  THEN /\ sim_pc' = AfterScenarioStep(sim_pc)
                       /\ UNCHANGED <<now, ev_building>>
                  ELSE /\ BuildRoom
                       /\ now' = now + 1
                       /\ \E k \in 1..Len(target_nodes) :
                            \E details \in DetailDraws(event_def.type,
                                                event_network_nodes[target_nodes[k]]) :
                              ev_building' = [ev_building EXCEPT !["event-simulation-thread"] =
                                  BuiltEvent(events, event_network_nodes, event_def.type,
                                             target_nodes[k], details, now')]
                       /\ UNCHANGED sim_pc
       \/ /\ sim_pc.at = "random"
          /\ BuildRoom
          /\ now' = now + 1
          /\ \E e \in EventTypeDraws, ti \in 1..Len(event_network_nodes) :
               \E details \in DetailDraws(EventTypes[e], event_network_nodes[ti]) :
                 ev_building' = [ev_building EXCEPT !["event-simulation-thread"] =
                     BuiltEvent(events, event_network_nodes, EventTypes[e], ti, details, now')]
          /\ UNCHANGED sim_pc
    /\ UNCHANGED <<outsideEventThreads, events, event_network_nodes, lt_pc, fo_pc, cmd_ret>>

\* load-test-caller: run_load_test is called; the start event is built.
LoadTestThreadCall ==
    /\ lt_pc.at = "none"
    /\ \E draw \in LoadTestDraws, duration_seconds \in DurationDraws :
         LET target_node_type == draw.target_node_type
             intensity == draw.intensity
             target_nodes == NodesOfType(event_network_nodes, target_node_type)
         IN IF target_nodes = <<>> \/ intensity \notin Intensities
            THEN /\ cmd_ret' = [op |-> "run_load_test", returned_false |-> TRUE,
                                ret |-> FALSE]
                 /\ UNCHANGED <<now, lt_pc, ev_building>>
            ELSE /\ BuildRoom
                 /\ now' = now + 1
                 /\ ev_building' = [ev_building EXCEPT !["load-test-caller"] =
                        [stage |-> "append",
                         event |-> LoadTestEvent(events, event_network_nodes, target_node_type,
                                       target_nodes, duration_seconds, intensity, now')]]
                 /\ lt_pc' = [at |-> "start", high |-> intensity = "high",
                              target_type |-> target_node_type, target_nodes |-> target_nodes,
                              k |-> 1, original_test_id |-> NextEventId(events),
                              slept |-> TRUE]
                 /\ UNCHANGED cmd_ret
    /\ UNCHANGED <<outsideEventThreads, events, event_network_nodes, sim_pc, fo_pc>>

\* load-test-caller: one iteration of the loop of lines 249-251, or the
\* completion event is built.
LoadTestThreadBuild ==
    /\ NotBusy("load-test-caller")
    /\ \/ /\ lt_pc.at = "stress"
          /\ \E exhausted \in Bernoulli(70) :
               IF exhausted
               THEN /\ BuildRoom
                    /\ now' = now + 1
                    /\ \E details \in DetailDraws("RESOURCE_EXHAUSTION",
                                        event_network_nodes[lt_pc.target_nodes[lt_pc.k]]) :
                         ev_building' = [ev_building EXCEPT !["load-test-caller"] =
                             BuiltEvent(events, event_network_nodes, "RESOURCE_EXHAUSTION",
                                        lt_pc.target_nodes[lt_pc.k], details, now')]
                    /\ UNCHANGED lt_pc
               ELSE /\ lt_pc' = [lt_pc EXCEPT !.k = lt_pc.k + 1,
                                              !.at = IF lt_pc.k < Len(lt_pc.target_nodes)
                                                     THEN "stress" ELSE "complete"]
                    /\ UNCHANGED <<now, ev_building>>
       \/ /\ lt_pc.at = "complete"
          /\ BuildRoom
          /\ now' = now + 1
          /\ ev_building' = [ev_building EXCEPT !["load-test-caller"] =
                 [stage |-> "append",
                  event |-> CompletionEvent(events, event_network_nodes, lt_pc.target_type,
                                lt_pc.target_nodes, lt_pc.original_test_id, now')]]
          /\ UNCHANGED lt_pc
    /\ UNCHANGED <<outsideEventThreads, events, event_network_nodes, sim_pc, fo_pc, cmd_ret>>

\* failover-caller: simulate_failover_scenario is called; NODE_FAILURE is built.
FailoverThreadCall ==
    /\ fo_pc.at = "none"
    /\ \E node_type \in NodeTypeDraws :
         LET target_nodes == NodesOfType(event_network_nodes, node_type)
         IN IF target_nodes = <<>>
            THEN /\ cmd_ret' = [op |-> "simulate_failover_scenario",
                                returned_false |-> TRUE, ret |-> FALSE]
                 /\ UNCHANGED <<now, fo_pc, ev_building>>
            ELSE /\ BuildRoom
                 /\ now' = now + 1
                 /\ \E k \in 1..Len(target_nodes), detection_time \in DetectionTimeDraws :
                      \E details \in DetailDraws("NODE_FAILURE",
                                                 event_network_nodes[target_nodes[k]]) :
                        /\ ev_building' = [ev_building EXCEPT !["failover-caller"] =
                               BuiltEvent(events, event_network_nodes, "NODE_FAILURE",
                                          target_nodes[k], details, now')]
                        /\ fo_pc' = [at |-> "failure", target_node |-> target_nodes[k],
                                     detection_time |-> detection_time]
                 /\ UNCHANGED cmd_ret
    /\ UNCHANGED <<outsideEventThreads, events, event_network_nodes, sim_pc, lt_pc>>

\* failover-caller: the FAILOVER or the RECOVERY event is built.
FailoverThreadBuild ==
    /\ NotBusy("failover-caller")
    /\ fo_pc.at \in {"failover", "recovery"}
    /\ BuildRoom
    /\ now' = now + 1
    /\ \E details \in DetailDraws(IF fo_pc.at = "failover" THEN "FAILOVER" ELSE "RECOVERY",
                                  event_network_nodes[fo_pc.target_node]) :
         ev_building' = [ev_building EXCEPT !["failover-caller"] =
             BuiltEvent(events, event_network_nodes,
                        IF fo_pc.at = "failover" THEN "FAILOVER" ELSE "RECOVERY",
                        fo_pc.target_node, details, now')]
    /\ UNCHANGED <<outsideEventThreads, events, event_network_nodes, sim_pc, lt_pc, fo_pc,
                   cmd_ret>>

\* Lines 147-196 of _generate_event: the write of target_node["status"].
GenerateEventStatus(t) ==
    /\ ev_building[t].stage = "status"
    /\ LET b == ev_building[t]
       IN event_network_nodes' =
              [event_network_nodes EXCEPT ![b.target].status =
                  StatusAfterEvent(event_network_nodes[b.target].status, b.event.type,
                                   b.event.details)]
    /\ ev_building' = [ev_building EXCEPT ![t].stage = "append"]
    /\ UNCHANGED <<now, outsideEventThreads, events, sim_pc, lt_pc, fo_pc, cmd_ret>>

\* Where the simulation loop is after it appended an event at position pos.
SimAfterAppend(pc, pos) ==
    IF pc.at = "scenario" THEN AfterScenarioStep(Emitted(pc, pos))
    ELSE IF pc.left > 1 THEN [pc EXCEPT !.left = pc.left - 1]
    ELSE [at |-> "sleep"]

\* Where run_load_test is after it appended an event.
LoadTestAfterAppend(pc) ==
    IF pc.at = "start" THEN [pc EXCEPT !.at = IF pc.high THEN "stress" ELSE "complete"]
    ELSE IF pc.at = "stress"
    THEN [pc EXCEPT !.k = pc.k + 1,
                    !.at = IF pc.k < Len(pc.target_nodes) THEN "stress" ELSE "complete"]
    ELSE [at |-> "none"]

\* Where simulate_failover_scenario is after _generate_event returned event.
FailoverAfterAppend(pc, event) ==
    IF pc.at = "failure"
    THEN [at |-> "failover", target_node |-> pc.target_node, failure_event |-> event,
          detection_time |-> pc.detection_time]
    ELSE IF pc.at = "failover"
    THEN [at |-> "recovery", target_node |-> pc.target_node,
          failure_event |-> pc.failure_event, failover_event |-> event,
          detection_time |-> pc.detection_time]
    ELSE [at |-> "none"]

\* Lines 197, 245, 269: self.events.append(event), and what the thread does
\* up to its next sleep or return.
AppendEvent(t) ==
    /\ ev_building[t].stage = "append"
    /\ events' = Append(events, ev_building[t].event)
    /\ ev_building' = [ev_building EXCEPT ![t] = NotBuilding]
    /\ IF t = "event-simulation-thread"
       THEN /\ sim_pc' = SimAfterAppend(sim_pc, Len(events'))
            /\ UNCHANGED <<lt_pc, fo_pc, cmd_ret>>
       ELSE IF t = "load-test-caller"
       THEN /\ lt_pc' = LoadTestAfterAppend(lt_pc)
            /\ cmd_ret' = IF lt_pc.at = "complete"
                          THEN [op |-> "run_load_test", returned_false |-> FALSE,
                                ret |-> TRUE]
                          ELSE cmd_ret
            /\ UNCHANGED <<sim_pc, fo_pc>>
       ELSE /\ fo_pc' = FailoverAfterAppend(fo_pc, ev_building[t].event)
            /\ cmd_ret' = IF fo_pc.at = "recovery"
                          THEN [op |-> "simulate_failover_scenario",
                                returned_false |-> FALSE,
                                ret |-> ScenarioResult(event_network_nodes[fo_pc.target_node],
                                            fo_pc.failure_event, fo_pc.failover_event,
                                            ev_building[t].event, fo_pc.detection_time)]
                          ELSE cmd_ret
            /\ UNCHANGED <<sim_pc, lt_pc>>
    /\ UNCHANGED <<now, outsideEventThreads, event_network_nodes>>

NextEventThreads ==
    \/ SimThreadBegin
    \/ SimThreadBuild
    \/ LoadTestThreadCall
    \/ LoadTestThreadBuild
    \/ FailoverThreadCall
    \/ FailoverThreadBuild
    \/ \E t \in EventThreads : GenerateEventStatus(t)
    \/ \E t \in EventThreads : AppendEvent(t)

SpecEventThreads == Init /\ [][NextEventThreads]_vars

\* ===================================================================== C4
\* C4: with run_load_test or simulate_failover_scenario running concurrently
\* with the simulation loop, no two events of the log carry the same id.
EventIdsDistinct ==
    \A i \in 1..Len(events) : \A j \in 1..Len(events) : i # j => events[i].id # events[j].id

\* ------------------------------------------- the event paths, one at a time
SpecEvent == Init /\ [][NextEvent]_vars

\* ===================================================================== C2
\* C2: whatever paths appended the events, the k-th event of the log has id k,
\* so each event's id is greater than all earlier ids.
EventIdIsPosition ==
    \A k \in 1..Len(events) : events[k].id = k

\* The log holds events of a load test and of another path.
EventsOfSeveralPaths ==
    /\ \E k \in 1..Len(events) : events[k].type = "LOAD_TEST_COMPLETED"
    /\ \E k \in 1..Len(events) : events[k].type \in {"NODE_FAILURE", "FAILOVER", "RECOVERY"}
    /\ Len(events) >= 3

\* ------------------------------------------------------ the collection loop
\* The loop asleep after t ticks, each of which took the quiet draw.
InitCollected ==
    /\ InitOutsideKPI
    /\ \E t \in CollectedTicks :
         /\ now = t
         /\ kpi_data = QuietTicks(EmptyKpiData, 1, t)
         /\ kpi_issues = (IF t = 0 THEN <<>> ELSE analyze_kpi_data(QuietTicks(EmptyKpiData, 1, t)))
    /\ kpi_pc = 0

SpecKPI == InitCollected /\ [][NextKPI]_vars

\* ===================================================================== C9
\* C9: every KPI window holds at most 1000 samples; an append to a window of
\* 1000 samples leaves 1000 samples, which are the old ones without the oldest,
\* in their order, followed by the new sample.
WindowBoundedFIFO ==
    [][\A k \in KpiIds : \A i \in 1..Len(kpi_data'[k]) :
          LET new == kpi_data'[k][i].points
              old == Points(kpi_data[k], kpi_data'[k][i].node_id)
          IN /\ Len(new) <= 1000
             /\ (new # old /\ Len(old) = 1000) =>
                    /\ Len(new) = 1000
                    /\ \A j \in 1..999 : new[j] = old[j + 1]
                    /\ new[1000].timestamp = now
                    /\ old[1000].timestamp < now]_vars

\* A window at capacity received a sample: its oldest sample is no longer the
\* one of the first tick, and its newest is the one collected last.
FullWindowReceivedSample ==
    \E k \in KpiIds : \E i \in 1..Len(kpi_data[k]) :
        /\ Len(kpi_data[k][i].points) = 1000
        /\ kpi_data[k][i].points[1].timestamp = 2
        /\ kpi_data[k][i].points[1000].timestamp = 1001

\* -------------------------------------------- _analyze_kpi_data on its own
\* Values around the thresholds of a KPI, and the values of the examples.
ValueDraws(kpi) ==
    {kpi.critical_threshold - 1, kpi.critical_threshold, kpi.critical_threshold + 1,
     kpi.warning_threshold - 1, kpi.warning_threshold, kpi.warning_threshold + 1}
    \cup (IF kpi.id = "node_availability" THEN {9940}
          ELSE IF kpi.id = "cpu_utilization" THEN {8200, 7500}
          ELSE {})

\* The windows _analyze_kpi_data can be handed for one node: one KPI with its
\* latest sample alone, or with a latest sample next to the critical threshold
\* after an older sample at the KPI's target.
WindowDraws ==
    UNION {{[kpi_id |-> kpi_definitions[k].id,
             points |-> <<[timestamp |-> 2, value |-> v]>>]
               : v \in ValueDraws(kpi_definitions[k])}
           \cup {[kpi_id |-> kpi_definitions[k].id,
                  points |-> <<[timestamp |-> 1, value |-> kpi_definitions[k].target],
                               [timestamp |-> 2, value |-> v]>>]
                    : v \in {kpi_definitions[k].critical_threshold - 1,
                             kpi_definitions[k].critical_threshold + 1}}
           : k \in 1..Len(kpi_definitions)}

\* kpi_data with window w[i] for node i.
RECURSIVE DataOf(_, _)
DataOf(w, i) ==
    IF i = 0 THEN EmptyKpiData
    ELSE LET data == DataOf(w, i - 1)
         IN [data EXCEPT ![w[i].kpi_id] =
                Append(@, [node_id |-> kpi_network_nodes[i].id, points |-> w[i].points])]

\* The collection loop is about to analyse the windows.
InitAnalysis ==
    /\ now = 2
    /\ InitOutsideKPI
    /\ \E w \in [1..Len(kpi_network_nodes) -> WindowDraws] :
         kpi_data = DataOf(w, Len(kpi_network_nodes))
    /\ kpi_pc = Len(kpi_network_nodes) + 1
    /\ kpi_issues = <<>>

SpecAnalysis == InitAnalysis /\ [][AnalyzeKpiData]_vars

\* ==================================================================== C10
\* The rule of the claim.
ReferenceSeverity(category, value, warning_threshold, critical_threshold) ==
    IF category \in {"availability", "quality"}
    THEN (IF value < critical_threshold THEN "CRITICAL"
          ELSE IF value < warning_threshold THEN "WARNING" ELSE "OK")
    ELSE IF category \in {"performance", "resource"}
    THEN (IF value > critical_threshold THEN "CRITICAL"
          ELSE IF value > warning_threshold THEN "WARNING" ELSE "OK")
    ELSE "undefined"

\* The severities _analyze_kpi_data reported for a window.
ReportedSeverities(kpi_id, node_id) ==
    {kpi_issues[n].severity : n \in {m \in 1..Len(kpi_issues) :
                                        /\ kpi_issues[m].kpi_id = kpi_id
                                        /\ kpi_issues[m].node_id = node_id}}

\* C10: after an analysis, the severity reported for every window is the one
\* of the reference rule applied to its latest value (none reported when the
\* rule gives OK): availability 99.4 is CRITICAL, CPU 82 is WARNING, CPU 75 OK.
SeverityIsReferenceRule ==
    kpi_pc = 0 =>
        \A k \in 1..Len(kpi_definitions) :
            LET kpi == kpi_definitions[k]
            IN \A i \in 1..Len(kpi_data[kpi.id]) :
                 LET w == kpi_data[kpi.id][i]
                     value == w.points[Len(w.points)].value
                     expected == ReferenceSeverity(kpi.category, value,
                                     kpi.warning_threshold, kpi.critical_threshold)
                     reported == ReportedSeverities(kpi.id, w.node_id)
                 IN w.points # <<>> =>
                      /\ expected \in {"CRITICAL", "WARNING", "OK"}
                      /\ reported = (IF expected = "OK" THEN {} ELSE {expected})
                      /\ (kpi.id = "node_availability" /\ value = 9940)
                             => reported = {"CRITICAL"}
                      /\ (kpi.id = "cpu_utilization" /\ value = 8200)
                             => reported = {"WARNING"}
                      /\ (kpi.id = "cpu_utilization" /\ value = 7500) => reported = {}

\* An analysis reported availability 99.4 of one node as CRITICAL and CPU 82 of
\* another as WARNING.
ExamplesAnalysed ==
    /\ kpi_pc = 0
    /\ \E m \in 1..Len(kpi_issues) :
         /\ kpi_issues[m].kpi_id = "node_availability"
         /\ kpi_issues[m].value = 9940
         /\ kpi_issues[m].severity = "CRITICAL"
    /\ \E m \in 1..Len(kpi_issues) :
         /\ kpi_issues[m].kpi_id = "cpu_utilization"
         /\ kpi_issues[m].value = 8200
         /\ kpi_issues[m].severity = "WARNING"

\* ------------------------------------- the collection loop and the queries
SpecKpiQuery == Init /\ [][NextKpiQuery]_vars

\* The window of (kpi_id, node_id) in what get_kpi_data returned.
WindowIn(result, kpi_id, node_id) ==
    LET ks == {k \in 1..Len(result) : result[k].kpi_id = kpi_id}
        k == CHOOSE x \in ks : TRUE
        js == {j \in 1..Len(result[k].nodes) : result[k].nodes[j].node_id = node_id}
    IN IF ks = {} \/ js = {} THEN <<>>
       ELSE result[k].nodes[CHOOSE j \in js : TRUE].points

RECURSIVE TotalOf(_, _)
TotalOf(w, n) == IF n = 0 THEN 0 ELSE TotalOf(w, n - 1) + w[n].value

\* ==================================================================== C11
\* C11: every entry of get_kpi_summary reduces the filtered window of its
\* (kpi, node): count is the number of its samples, min and max its smallest
\* and largest value, avg its sum divided by count, latest and
\* latest_timestamp those of its most recently appended sample; every filtered
\* window that is not empty has an entry.
SummaryReducesFilteredWindow ==
    [][(api_call' # api_call /\ api_call'.op = "get_kpi_summary") =>
          \A c \in {api_call'} :
          \A data \in {get_kpi_data(kpi_data, c.kpi_id, c.node_id, c.time_range, now)} :
             /\ \A k \in 1..Len(c.ret) : \A j \in 1..Len(c.ret[k].nodes) :
                  \A s \in {c.ret[k].nodes[j].summary} :
                  \A w \in {WindowIn(data, c.ret[k].kpi_id, c.ret[k].nodes[j].node_id)} :
                     /\ w # <<>>
                     /\ s.count = Len(w)
                     /\ \E n \in 1..Len(w) : w[n].value = s.min
                     /\ \A n \in 1..Len(w) : s.min <= w[n].value
                     /\ \E n \in 1..Len(w) : w[n].value = s.max
                     /\ \A n \in 1..Len(w) : s.max >= w[n].value
                     /\ s.avg.den # 0
                     /\ s.avg.num * s.count = TotalOf(w, Len(w)) * s.avg.den
                     /\ s.latest = w[Len(w)].value
                     /\ s.latest_timestamp = w[Len(w)].timestamp
                     /\ \A n \in 1..Len(w) : w[n].timestamp <= s.latest_timestamp
             /\ \A k \in 1..Len(data) : \A j \in 1..Len(data[k].nodes) :
                  data[k].nodes[j].points # <<>> =>
                      \E k2 \in 1..Len(c.ret) : \E j2 \in 1..Len(c.ret[k2].nodes) :
                          /\ c.ret[k2].kpi_id = data[k].kpi_id
                          /\ c.ret[k2].nodes[j2].node_id = data[k].nodes[j].node_id]_vars

\* A summary of a window of two samples of different values, the later one
\* the smaller.
SummaryOfTwoSamples ==
    /\ api_call.op = "get_kpi_summary"
    /\ \E k \in 1..Len(api_call.ret) : \E j \in 1..Len(api_call.ret[k].nodes) :
         LET s == api_call.ret[k].nodes[j].summary
         IN /\ s.count = 2
            /\ s.min < s.max
            /\ s.latest = s.min
            /\ s.avg.num = s.min + s.max

\* ==================================================================== C12
\* C12: a call of get_kpi_data that supplies a time_range, a zero one too,
\* returns only samples at or after the cutoff now - time_range, and returns
\* every stored sample at or after the cutoff that passes the KPI and node
\* filters.
TimeRangeFilterExact ==
    [][(api_call' # api_call /\ api_call'.op = "get_kpi_data"
            /\ api_call'.time_range # <<>>) =>
          LET c == api_call'
              cutoff == now - c.time_range[1]
          IN /\ \A k \in 1..Len(c.ret) : \A j \in 1..Len(c.ret[k].nodes) :
                  \A n \in 1..Len(c.ret[k].nodes[j].points) :
                      c.ret[k].nodes[j].points[n].timestamp >= cutoff
             /\ \A kpi_id \in KpiIds : \A e \in 1..Len(kpi_data[kpi_id]) :
                  \A n \in 1..Len(kpi_data[kpi_id][e].points) :
                      LET dp == kpi_data[kpi_id][e].points[n]
                          node_id == kpi_data[kpi_id][e].node_id
                      IN (/\ dp.timestamp >= cutoff
                          /\ c.kpi_id \in {<<>>, <<kpi_id>>}
                          /\ c.node_id \in {<<>>, <<node_id>>}) =>
                             \A w \in {WindowIn(c.ret, kpi_id, node_id)} :
                                 \E m \in 1..Len(w) : w[m] = dp]_vars

\* ==================================================================== C13
\* The events that the running scenario has appended after a step of the
\* simulation loop: what the run recorded, with the event of the last
\* iteration when the step ended the run.
EmittedAfterStep ==
    IF sim_pc'.at = "scenario" THEN sim_pc'.emitted
    ELSE IF Len(events') > Len(events)
    THEN Append(sim_pc.emitted, [pos |-> Len(events'), step |-> sim_pc.step])
    ELSE sim_pc.emitted

\* C13: the events of one scenario run lie in the log in the order of their
\* EventSpecs: each has the type of its EventSpec, a later EventSpec's event
\* lies at a later position, and when every EventSpec emitted, the run's
\* events have the types of the scenario's list, in that order.
ScenarioEventsInSpecOrder ==
    [][sim_pc.at = "scenario" =>
         \A run \in {EmittedAfterStep} :
           LET specs == scenarios[sim_pc.scenario].events
           IN /\ \A i \in 1..Len(run) :
                    /\ run[i].pos \in 1..Len(events')
                    /\ run[i].step \in 1..Len(specs)
                    /\ events'[run[i].pos].type = specs[run[i].step].type
              /\ \A i \in 1..Len(run) : \A j \in 1..Len(run) :
                    i < j => run[i].step < run[j].step /\ run[i].pos < run[j].pos
              /\ Len(run) = Len(specs) =>
                    \A i \in 1..Len(run) : events'[run[i].pos].type = specs[i].type]_vars

\* A run of "Multiple Node Failure" has appended NODE_FAILURE, FAILOVER and
\* RECOVERY, the events of its first, third and fifth EventSpec.
ScenarioEmittedThreeEvents ==
    /\ sim_pc.at = "scenario"
    /\ scenarios[sim_pc.scenario].name = "Multiple Node Failure"
    /\ Len(sim_pc.emitted) = 3
    /\ [i \in 1..3 |-> events[sim_pc.emitted[i].pos].type]
         = <<"NODE_FAILURE", "FAILOVER", "RECOVERY">>
    /\ [i \in 1..3 |-> sim_pc.emitted[i].step] = <<1, 3, 5>>

\* ==================================================================== C14
\* The arguments that fail validation: an intensity that is none of low,
\* medium and high, or a node type that no node has.
FailsValidation(op, args, nodes) ==
    IF op = "run_load_test"
    THEN \/ args.intensity \notin {"low", "medium", "high"}
         \/ \A i \in 1..Len(nodes) : nodes[i].type # args.target_node_type
    ELSE \A i \in 1..Len(nodes) : nodes[i].type # args.node_type

\* C14: a run_load_test or simulate_failover_scenario call that fails
\* validation returns False, appends no event and changes no node status;
\* a call that begins a test or a failover has arguments that pass
\* validation, and only a call that fails validation returns False.
FailedValidationHasNoEffect ==
    [][EventsIdle =>
         /\ (sim_pc'.at = "sleep" /\ lt_pc'.at = "none" /\ fo_pc'.at = "none") =>
               /\ events' = events
               /\ event_network_nodes' = event_network_nodes
               /\ cmd_ret'.op \in {"run_load_test", "simulate_failover_scenario"}
               /\ cmd_ret'.returned_false
               /\ cmd_ret'.ret = FALSE
               /\ FailsValidation(cmd_ret'.op, cmd_ret'.args, event_network_nodes)
         /\ lt_pc'.at # "none" =>
               /\ events' # events
               /\ \A e \in {events'[Len(events')]} :
                    /\ e.type = "LOAD_TEST"
                    /\ ~FailsValidation("run_load_test",
                            [target_node_type |-> e.target_type,
                             intensity |-> e.details.intensity], event_network_nodes)
         /\ fo_pc'.at # "none" =>
               /\ events' # events
               /\ \A e \in {events'[Len(events')]} :
                    /\ e.type = "NODE_FAILURE"
                    /\ ~FailsValidation("simulate_failover_scenario",
                            [node_type |-> e.target_type], event_network_nodes)]_vars

\* A load test of the gNB nodes with intensity "extreme" returned False when
\* the log already held events.
InvalidIntensityRejected ==
    /\ cmd_ret.op = "run_load_test"
    /\ cmd_ret.returned_false
    /\ cmd_ret.args.intensity = "extreme"
    /\ cmd_ret.args.target_node_type = "gNB"
    /\ EventsIdle
    /\ Len(events) > 0

\* ==================================================================== C15
\* The events of the log from the start event at position s up to, and not
\* including, position p are those of one load test: LOAD_TEST with id s, then
\* RESOURCE_EXHAUSTION events only, none unless the intensity is high, each
\* on a node of the requested type that the test targets, no two on the same
\* node.
LoadTestEventsFrom(s, p) ==
    /\ events[s].type = "LOAD_TEST"
    /\ events[s].id = s
    /\ \A q \in (s + 1)..(p - 1) :
         /\ events[q].type = "RESOURCE_EXHAUSTION"
         /\ events[s].details.intensity = "high"
         /\ events[q].target_type = events[s].target_type
         /\ \E k \in 1..Len(events[s].target_nodes) :
              events[s].target_nodes[k] = events[q].target_node
         /\ \A q2 \in (s + 1)..(p - 1) :
              q2 # q => events[q2].target_node # events[q].target_node

\* C15: every LOAD_TEST_COMPLETED event names as original_test_id the id of a
\* LOAD_TEST start event that lies before it, with nothing but the test's
\* RESOURCE_EXHAUSTION events between the two, and a start event without a
\* completion event belongs to the test in progress.
LoadTestEventsInOrder ==
    /\ \A p \in 1..Len(events) :
         events[p].type = "LOAD_TEST_COMPLETED" =>
           \A s \in {events[p].details.original_test_id} :
             /\ s \in 1..(p - 1)
             /\ LoadTestEventsFrom(s, p)
             /\ events[p].target_type = events[s].target_type
             /\ events[p].target_nodes = events[s].target_nodes
             /\ events[s].details.intensity \in {"low", "medium"} => p = s + 1
    /\ \A s \in 1..Len(events) :
         events[s].type = "LOAD_TEST" =>
           \/ \E p \in (s + 1)..Len(events) :
                /\ events[p].type = "LOAD_TEST_COMPLETED"
                /\ events[p].details.original_test_id = s
           \/ /\ lt_pc.at # "none"
              /\ lt_pc.original_test_id = s
              /\ LoadTestEventsFrom(s, Len(events) + 1)

\* A high-intensity load test has run to its end with one RESOURCE_EXHAUSTION
\* event between its start and its completion event.
HighLoadTestCompleted ==
    /\ Len(events) = 3
    /\ [i \in 1..3 |-> events[i].type]
         = <<"LOAD_TEST", "RESOURCE_EXHAUSTION", "LOAD_TEST_COMPLETED">>
    /\ events[1].details.intensity = "high"
    /\ cmd_ret.op = "run_load_test"
    /\ ~cmd_ret.returned_false

\* ==================================================================== C16
\* C16: a simulate_failover_scenario call that found nodes of the requested
\* type returned a result that lists three events, NODE_FAILURE, FAILOVER and
\* RECOVERY, with strictly increasing ids; these are three consecutive events
\* of the log, with those ids and types, all on the node that the result
\* names, which has the requested type.
FailoverAppendsThreeEvents ==
    (cmd_ret.op = "simulate_failover_scenario" /\ ~cmd_ret.returned_false) =>
      \A res \in {cmd_ret.ret} :
        /\ Len(res.events) = 3
        /\ [i \in 1..3 |-> res.events[i].type] = <<"NODE_FAILURE", "FAILOVER", "RECOVERY">>
        /\ res.events[1].id < res.events[2].id
        /\ res.events[2].id < res.events[3].id
        /\ res.events[3].id = res.events[1].id + 2
        /\ res.target_type = cmd_ret.args.node_type
        /\ \A i \in 1..3 :
             /\ res.events[i].id \in 1..Len(events)
             /\ \A e \in {events[res.events[i].id]} :
                  /\ e.id = res.events[i].id
                  /\ e.type = res.events[i].type
                  /\ e.target_node = res.target_node
                  /\ e.target_type = cmd_ret.args.node_type

\* A failover of a gNB node has returned its result.
FailoverReturnedResult ==
    /\ cmd_ret.op = "simulate_failover_scenario"
    /\ ~cmd_ret.returned_false
    /\ cmd_ret.args.node_type = "gNB"
    /\ Len(events) = 3
    /\ fo_pc.at = "none"

\* ==================================================================== C17
\* C17: every node has the same status in the node list of the alarm and
\* fault subsystem, in that of the KPI collector and in that of the event
\* simulator.
SingleSharedRegistry ==
    \A i \in NodeIdx :
      /\ oam_network_nodes[i].id = event_network_nodes[i].id
      /\ oam_network_nodes[i].id = kpi_network_nodes[i].id
      /\ oam_network_nodes[i].status = event_network_nodes[i].status
      /\ oam_network_nodes[i].status = kpi_network_nodes[i].status

\* ==================================================================== C18
\* C18: no step shortens the event log or changes an event that it holds:
\* every event stays at its position with its id, type, target, timestamp
\* and details.
EventLogAppendOnly ==
    [][/\ Len(events') >= Len(events)
       /\ \A i \in 1..Len(events) : events'[i] = events[i]]_vars

\* The log holds an event appended at an earlier time than its last event,
\* and it is full.
EarlierEventsKept ==
    /\ Len(events) = MaxEvents
    /\ events[1].timestamp < events[Len(events)].timestamp
    /\ \A i \in 1..Len(events) : events[i].id = i

\* ------------------------------------------- the loops from start to stop
\* The specifications above follow the ticks of the loops while the platform
\* runs. This one follows main(), the start and stop of the components and
\* the "while self.running" loop of each thread; of a tick it keeps only
\* whether it is in flight, has completed or has raised.

\* OAMPlatform.components that run the loops followed here, in the order in
\* which start() and stop() go through them.
Components == <<"oam", "kpi", "event">>

\* The threads that the start() methods create, and the component whose
\* self.running each loop reads.
LoopThreads == Threads \cup {"kpi-collection-thread", "event-simulation-thread"}

ComponentOf(t) ==
    IF t \in Threads THEN "oam"
    ELSE IF t = "kpi-collection-thread" THEN "kpi"
    ELSE "event"

\* A thread whose loop function has neither returned nor raised.
Alive(t) == loop_at[t] \in {"check", "tick", "sleep"}

\* main(): after a component's start() or stop(), the next component.
AfterComponent(pc, then) ==
    IF pc.i < Len(Components) THEN [pc EXCEPT !.i = pc.i + 1] ELSE [at |-> then]

\* OAMPlatform.start calls start() of the next component: self.running = True
\* and the daemon threads are started.
ComponentStart ==
    /\ main_pc.at = "start"
    /\ \A c \in {Components[main_pc.i]} :
         IF running[c]
         THEN UNCHANGED <<running, loop_at>>
         ELSE /\ running' = [running EXCEPT ![c] = TRUE]
              /\ loop_at' = [t \in LoopThreads |->
                                IF ComponentOf(t) = c THEN "check" ELSE loop_at[t]]
    /\ main_pc' = AfterComponent(main_pc, "serve")
    /\ UNCHANGED <<now, oamVars, loopVars, api_call, thVars, eventVars, ev_building, kpiVars, loop_instances>>

\* Ctrl+C while main() sleeps in "while True": OAMPlatform.stop begins.
KeyboardInterrupt ==
    /\ main_pc.at = "serve"
    /\ main_pc' = [at |-> "stop", i |-> 1]
    /\ UNCHANGED <<now, oamVars, loopVars, api_call, thVars, eventVars, ev_building, kpiVars, loop_instances,
                   running, loop_at>>

\* OAMPlatform.stop calls stop() of the next component: self.running = False.
ComponentStop ==
    /\ main_pc.at = "stop"
    /\ running' = [running EXCEPT ![Components[main_pc.i]] = FALSE]
    /\ main_pc' = AfterComponent(main_pc, "return")
    /\ UNCHANGED <<now, oamVars, loopVars, api_call, thVars, eventVars, ev_building, kpiVars, loop_instances,
                   loop_at>>

\* main() returns 0 and sys.exit ends the process: no thread is joined, and
\* the threads, all daemon threads, end where they are.
ProcessExit ==
    /\ main_pc.at = "return"
    /\ main_pc' = [at |-> "exited"]
    /\ loop_at' = [t \in LoopThreads |-> IF Alive(t) THEN "killed" ELSE loop_at[t]]
    /\ UNCHANGED <<now, oamVars, loopVars, api_call, thVars, eventVars, ev_building, kpiVars, loop_instances,
                   running>>

\* "while self.running:": a tick begins, or the loop function returns.
LoopCheck(t) ==
    /\ loop_at[t] = "check"
    /\ loop_at' = [loop_at EXCEPT ![t] = IF running[ComponentOf(t)] THEN "tick"
                                          ELSE "returned"]
    /\ UNCHANGED <<now, oamVars, loopVars, api_call, thVars, eventVars, ev_building, kpiVars, loop_instances,
                   running, main_pc>>

\* The body of the tick runs to the time.sleep that ends it.
TickDone(t) ==
    /\ loop_at[t] = "tick"
    /\ loop_at' = [loop_at EXCEPT ![t] = "sleep"]
    /\ UNCHANGED <<now, oamVars, loopVars, api_call, thVars, eventVars, ev_building, kpiVars, loop_instances,
                   running, main_pc>>

\* A statement of the body raises: no try statement encloses the body or
\* the loop, the exception leaves the loop function and the thread ends.
TickRaises(t) ==
    /\ loop_at[t] = "tick"
    /\ loop_at' = [loop_at EXCEPT ![t] = "raised"]
    /\ UNCHANGED <<now, oamVars, loopVars, api_call, thVars, eventVars, ev_building, kpiVars, loop_instances,
                   running, main_pc>>

\* time.sleep returns.
SleepDone(t) ==
    /\ loop_at[t] = "sleep"
    /\ loop_at' = [loop_at EXCEPT ![t] = "check"]
    /\ UNCHANGED <<now, oamVars, loopVars, api_call, thVars, eventVars, ev_building, kpiVars, loop_instances,
                   running, main_pc>>

NextLifecycle ==
    \/ ComponentStart
    \/ KeyboardInterrupt
    \/ ComponentStop
    \/ ProcessExit
    \/ \E t \in LoopThreads : LoopCheck(t)
    \/ \E t \in LoopThreads : TickDone(t)
    \/ \E t \in LoopThreads : TickRaises(t)
    \/ \E t \in LoopThreads : SleepDone(t)

SpecLifecycle == Init /\ [][NextLifecycle]_vars

\* ==================================================================== C19
\* C19: while a component is running, none of its loops has been ended by an
\* error raised in a tick: the error is caught and the loop runs on.
LoopsSurviveTickErrors ==
    \A t \in LoopThreads : running[ComponentOf(t)] => loop_at[t] # "raised"

\* ==================================================================== C20
\* C20: after stop() a loop is not interrupted in the tick that is in
\* flight, which ends only by completing (or by an error of its own), and
\* a loop that finds self.running false at its check begins no tick.
StoppedLoopCompletesTick ==
    [][\A t \in LoopThreads :
         ~running[ComponentOf(t)] =>
           /\ loop_at[t] = "tick" => loop_at'[t] \in {"tick", "sleep", "raised"}
           /\ loop_at[t] = "check" => loop_at'[t] # "tick"]_vars

\* ------------------------------------------------------------- get_alarms
\* get_alarms(filter_status), filter_status <<>> for None: what it returns is
\* self.alarms itself (line 174), or a new dictionary over the keys that pass
\* the filter whose values are the alarm dictionaries of the store (line 173).
get_alarms(store, filter_status) ==
    IF filter_status # <<>> /\ filter_status[1] # ""
    THEN [object |-> "new dict",
          keys |-> {k \in DOMAIN store : store[k].status = filter_status[1]}]
    ELSE [object |-> "self.alarms"]

\* What the holder of a get_alarms result reads in it when the store is store.
AlarmsSeenIn(result, store) ==
    IF result.object = "self.alarms" THEN store
    ELSE [k \in result.keys |-> store[k]]

FilterStatusDraws == {<<>>, <<"active">>, <<"cleared">>}

\* A caller calls get_alarms and keeps the result; read_at_return is what it
\* reads in the result when the call returns.
CallGetAlarms ==
    /\ api_call.op = "none"
    /\ \E filter_status \in FilterStatusDraws :
         \A r \in {get_alarms(alarms, filter_status)} :
           api_call' = [op |-> "get_alarms", filter_status |-> filter_status, ret |-> r,
                        read_at_return |-> AlarmsSeenIn(r, alarms)]
    /\ UNCHANGED <<now, oamVars, loopVars, thVars, eventVars, ev_building, kpiVars, lifeVars>>

\* The detection loops, tick by tick, and one caller of get_alarms.
NextAlarmReader ==
    \/ Next
    \/ CallGetAlarms

SpecAlarmReader == Init /\ [][NextAlarmReader]_vars

\* ==================================================================== C21
\* C21: what the holder of a get_alarms result reads in it stays what it was
\* when the call returned: the same alarms, each with the same fields.
GetAlarmsReturnsSnapshot ==
    api_call.op = "get_alarms" =>
        AlarmsSeenIn(api_call.ret, alarms) = api_call.read_at_return

\* The detection threads and one reader that calls get_alarms and reads the
\* result while the threads run.
NextAlarmReaderThreads ==
    \/ NextOAMThreads
    \/ CallGetAlarms

SpecAlarmReaderThreads == Init /\ [][NextAlarmReaderThreads]_vars

\* ==================================================================== C22
\* C22: every alarm that a reader reads in a get_alarms result while the
\* detection threads run is whole: active without cleared_time, or cleared
\* with a cleared_time.
ReaderSeesWholeAlarms ==
    api_call.op = "get_alarms" =>
        \A seen \in {AlarmsSeenIn(api_call.ret, alarms)} :
          \A k \in DOMAIN seen :
            \/ seen[k].status = "active" /\ ~HasClearedTime(seen[k])
            \/ seen[k].status = "cleared" /\ HasClearedTime(seen[k])

\* ==================================================================== C23
\* C23: get_kpi_data called without a node_id returns, for every selected
\* KPI, a window for every node that has a sample passing the time filter,
\* the whole stored window when no time_range is given; called with a
\* node_id it returns windows of that node only, one for every selected KPI
\* in which the node has a sample passing the time filter.
KpiDataCoversEveryNode ==
    [][(api_call' # api_call /\ api_call'.op = "get_kpi_data") =>
          \A c \in {api_call'} :
            /\ \A kpi_id \in KpiIds : \A e \in 1..Len(kpi_data[kpi_id]) :
                 \A node_id \in {kpi_data[kpi_id][e].node_id} :
                   (/\ c.kpi_id \in {<<>>, <<kpi_id>>}
                    /\ c.node_id \in {<<>>, <<node_id>>}
                    /\ \E n \in 1..Len(kpi_data[kpi_id][e].points) :
                         \/ c.time_range = <<>>
                         \/ kpi_data[kpi_id][e].points[n].timestamp >= now - c.time_range[1])
                   => \A w \in {WindowIn(c.ret, kpi_id, node_id)} :
                        /\ w # <<>>
                        /\ c.time_range = <<>> => w = kpi_data[kpi_id][e].points
            /\ c.node_id # <<>> =>
                 \A k \in 1..Len(c.ret) : \A j \in 1..Len(c.ret[k].nodes) :
                   c.ret[k].nodes[j].node_id = c.node_id[1]]_vars

\* ------------------------------------------------------------- get_events
\* get_events(event_type, node_id, time_range) at time t, arguments <<>> for
\* None: the list returned, or the KeyError that e["target_node"] (line 205)
\* raises for an event that has no such key.  An EventType member is truthy;
\* a time_range of zero is not.
get_events(evs, event_type, node_id, time_range, t) ==
    LET by_type == IF event_type # <<>>
                   THEN SelectSeq(evs, LAMBDA e : e.type = event_type[1])
                   ELSE evs
        by_node == IF TruthyId(node_id)
                   THEN SelectSeq(by_type, LAMBDA e : e.target_node = node_id[1])
                   ELSE by_type
        by_time == IF TruthyRange(time_range)
                   THEN SelectSeq(by_node, LAMBDA e : e.timestamp >= t - time_range[1])
                   ELSE by_node
    IN IF /\ TruthyId(node_id)
          /\ \E i \in 1..Len(by_type) : "target_node" \notin DOMAIN by_type[i]
       THEN [raised |-> "KeyError", ret |-> <<>>]
       ELSE [raised |-> "none", ret |-> by_time]

EventTypeArgDraws == {<<>>, <<"NODE_FAILURE">>}
EventNodeIdDraws == {<<>>, <<"gnb-001">>}
EventTimeRangeDraws == {<<>>, <<1>>}

\* A call get_events(event_type, node_id, time_range) between two paths.
CallGetEvents ==
    /\ api_call.op = "none"
    /\ EventsIdle
    /\ \E event_type \in EventTypeArgDraws, node_id \in EventNodeIdDraws,
          time_range \in EventTimeRangeDraws :
         \A r \in {get_events(events, event_type, node_id, time_range, now)} :
           api_call' = [op |-> "get_events", event_type |-> event_type, node_id |-> node_id,
                        time_range |-> time_range, at |-> now,
                        raised |-> r.raised, ret |-> r.ret]
    /\ UNCHANGED <<now, oamVars, loopVars, thVars, eventVars, ev_building, kpiVars, lifeVars>>

\* The event paths are followed up to one query.
EventsBeforeQuery == api_call.op = "none" /\ NextEvent

NextEventQuery ==
    \/ EventsBeforeQuery
    \/ CallGetEvents

SpecEventQuery == Init /\ [][NextEventQuery]_vars

\* ==================================================================== C24
\* C24: get_events with a node_id and no event type returns normally, and
\* what it returns are events of that node, in log order, among them every
\* event of the log that targets the node when no time_range is given.
GetEventsByNodeReturns ==
    (api_call.op = "get_events" /\ api_call.node_id # <<>> /\ api_call.event_type = <<>>) =>
        /\ api_call.raised = "none"
        /\ \A i \in 1..Len(api_call.ret) : api_call.ret[i].target_node = api_call.node_id[1]
        /\ \A i \in 1..Len(api_call.ret) : \A j \in 1..Len(api_call.ret) :
             i < j => api_call.ret[i].id < api_call.ret[j].id
        /\ api_call.time_range = <<>> =>
             \A k \in 1..Len(events) :
               ("target_node" \in DOMAIN events[k]
                   /\ events[k].target_node = api_call.node_id[1]) =>
                 \E i \in 1..Len(api_call.ret) : api_call.ret[i] = events[k]

\* ===================================================================== C25
\* The fault-generation loop and the KPI collection loop of one platform, each
\* thread a step at a time.
NextFaultsAndCollection ==
    \/ FaultGenWake
    \/ FaultNode
    \/ RecoverTrial
    \/ CollectionWake
    \/ CollectNode
    \/ AnalyzeKpiData

SpecFaultsAndCollection == Init /\ [][NextFaultsAndCollection]_vars

\* The status that fault generation last left the node of this id in.
FaultStatusOf(node_id) ==
    oam_network_nodes[CHOOSE i \in 1..Len(oam_network_nodes) :
                          oam_network_nodes[i].id = node_id].status

\* C25: the node_availability sample that a collection tick appends for a node
\* is 0 when the node is down at that tick and 100 when it is active; a node
\* that fault generation set down and that has not recovered gets the sample 0.
AvailabilityFollowsFaults ==
    [][\A i \in 1..Len(kpi_network_nodes) :
          (kpi_pc = i /\ kpi_pc' = i + 1) =>
              \A pts \in {Points(kpi_data'["node_availability"], kpi_network_nodes[i].id)} :
                  /\ Len(pts) > 0
                  /\ pts[Len(pts)].timestamp = now
                  /\ pts[Len(pts)].value =
                         (IF FaultStatusOf(kpi_network_nodes[i].id) = "down" THEN 0 ELSE 10000)]_vars

\* ===================================================================== C26
\* The entries of the issue list for the window of a KPI and a node.
IssuesOfWindow(kpi_id, node_id) ==
    {m \in 1..Len(kpi_issues) :
        kpi_issues[m].kpi_id = kpi_id /\ kpi_issues[m].node_id = node_id}

\* The windows whose latest sample is not OK.
NonOkWindows ==
    {kn \in (1..Len(kpi_definitions)) \X NodeIds :
        \E pts \in {Points(kpi_data[kpi_definitions[kn[1]].id], kn[2])} :
            /\ pts # <<>>
            /\ Severity(kpi_definitions[kn[1]], pts[Len(pts)].value) \in {"WARNING", "CRITICAL"}}

\* C26: the issue list of an evaluation cycle has exactly one entry for each
\* window whose latest sample is WARNING or CRITICAL, carrying that sample, and
\* no entry for a window that is empty or whose latest sample is OK, whatever
\* the earlier samples of the window and the issue list of the cycle before.
IssuesAreNonOkLatestSamples ==
    kpi_pc = 0 =>
        /\ Len(kpi_issues) = Cardinality(NonOkWindows)
        /\ \A k \in 1..Len(kpi_definitions) : \A node_id \in NodeIds :
             \A pts \in {Points(kpi_data[kpi_definitions[k].id], node_id)} :
               IF <<k, node_id>> \in NonOkWindows
               THEN /\ Cardinality(IssuesOfWindow(kpi_definitions[k].id, node_id)) = 1
                    /\ \A m \in IssuesOfWindow(kpi_definitions[k].id, node_id) :
                         /\ kpi_issues[m].value = pts[Len(pts)].value
                         /\ kpi_issues[m].timestamp = pts[Len(pts)].timestamp
                         /\ kpi_issues[m].severity =
                                Severity(kpi_definitions[k], pts[Len(pts)].value)
               ELSE IssuesOfWindow(kpi_definitions[k].id, node_id) = {}

\* A cycle ended whose list has no CPU issue for a node with CPU 60 now and 91.2
\* at the tick before, has a CPU issue for another node, and has no
\* recovery_time issue for a node without recovery_time samples.
StaleIssueDropped ==
    /\ kpi_pc = 0
    /\ \E node_id \in NodeIds :
         \E pts \in {Points(kpi_data["cpu_utilization"], node_id)} :
           /\ Len(pts) >= 2
           /\ pts[Len(pts) - 1].value = 9120
           /\ pts[Len(pts)].value = 6000
           /\ IssuesOfWindow("cpu_utilization", node_id) = {}
    /\ \E node_id \in NodeIds :
         /\ IssuesOfWindow("cpu_utilization", node_id) # {}
         /\ Points(kpi_data["recovery_time"], node_id) = <<>>
         /\ IssuesOfWindow("recovery_time", node_id) = {}

\* ===================================================================== C27
\* The KPIs that every collection samples.
SampledKpis == KpiIds \ {"recovery_time"}

\* new is old after one append of a sample taken at time t.
OneSampleAppended(old, new, t) ==
    /\ new # <<>>
    /\ new[Len(new)].timestamp = t
    /\ new = (IF Len(old) < WindowCapacity THEN Append(old, new[Len(new)])
              ELSE Append(Tail(old), new[Len(new)]))

\* C27: a collection tick appends for each node one sample to each of the seven
\* windows other than recovery_time, all of one timestamp, and at most one
\* recovery_time sample, none for a node that is down; so the seven windows of
\* a node have one length and its recovery_time window is not longer.
TickAppendsOneSamplePerKpi ==
    /\ [][\A i \in 1..Len(kpi_network_nodes) :
            (kpi_pc = i /\ kpi_pc' = i + 1) =>
              /\ \A k \in SampledKpis :
                   OneSampleAppended(Points(kpi_data[k], kpi_network_nodes[i].id),
                                     Points(kpi_data'[k], kpi_network_nodes[i].id), now)
              /\ \/ Points(kpi_data'["recovery_time"], kpi_network_nodes[i].id)
                      = Points(kpi_data["recovery_time"], kpi_network_nodes[i].id)
                 \/ OneSampleAppended(
                        Points(kpi_data["recovery_time"], kpi_network_nodes[i].id),
                        Points(kpi_data'["recovery_time"], kpi_network_nodes[i].id), now)
              /\ \A k \in KpiIds : \A j \in 1..Len(kpi_network_nodes) :
                   j # i => Points(kpi_data'[k], kpi_network_nodes[j].id)
                              = Points(kpi_data[k], kpi_network_nodes[j].id)
              /\ \A draw \in KpiDraws :
                   \A down \in {collect_node_kpis(kpi_data,
                                   [kpi_network_nodes[i] EXCEPT !.status = "down"], draw, now)} :
                     /\ Points(down["recovery_time"], kpi_network_nodes[i].id)
                          = Points(kpi_data["recovery_time"], kpi_network_nodes[i].id)
                     /\ \A k \in SampledKpis :
                          OneSampleAppended(Points(kpi_data[k], kpi_network_nodes[i].id),
                                            Points(down[k], kpi_network_nodes[i].id), now)]_vars
    /\ [](\A i \in 1..Len(kpi_network_nodes) :
            /\ \A k1, k2 \in SampledKpis :
                 Len(Points(kpi_data[k1], kpi_network_nodes[i].id))
                   = Len(Points(kpi_data[k2], kpi_network_nodes[i].id))
            /\ Len(Points(kpi_data["recovery_time"], kpi_network_nodes[i].id))
                 <= Len(Points(kpi_data["node_availability"], kpi_network_nodes[i].id)))

\* Two ticks have sampled a node: each of its seven windows has two samples, the
\* last of them of this tick, and its recovery_time window has one sample.
RecoveryWindowShorter ==
    \E i \in 1..Len(kpi_network_nodes) :
        /\ \A k \in SampledKpis :
             \E pts \in {Points(kpi_data[k], kpi_network_nodes[i].id)} :
                 Len(pts) = 2 /\ pts[2].timestamp = now /\ pts[1].timestamp < now
        /\ Len(Points(kpi_data["recovery_time"], kpi_network_nodes[i].id)) = 1

\* ===================================================================== C28
\* The nodes an EventSpec can target: every node for ALL, else those of its
\* target_type.
SpecTargets(event_def) ==
    {i \in 1..Len(event_network_nodes) :
        \/ event_def.target_type = "ALL"
        \/ event_network_nodes[i].type = event_def.target_type}

\* C28: the iteration of a scenario run for an EventSpec appends at most one
\* event to the log.  Under some outcome of the spec's Bernoulli trial the step
\* is this: no event when the trial fails or no node is a target, and otherwise
\* one event of the spec's type for a node of the spec's target_type, or for
\* any node when the target_type is ALL.
EventSpecYieldsAtMostOneEvent ==
    [][sim_pc.at = "scenario" =>
         LET event_def == scenarios[sim_pc.scenario].events[sim_pc.step]
         IN \E trial \in Bernoulli(event_def.probability) :
              IF ~trial \/ SpecTargets(event_def) = {}
              THEN events' = events
              ELSE /\ Len(events') = Len(events) + 1
                   /\ SubSeq(events', 1, Len(events)) = events
                   /\ events'[Len(events')].type = event_def.type
                   /\ \E i \in SpecTargets(event_def) :
                        /\ events'[Len(events')].target_node = event_network_nodes[i].id
                        /\ events'[Len(events')].target_type = event_network_nodes[i].type
                   /\ event_def.target_type # "ALL" =>
                        events'[Len(events')].target_type = event_def.target_type]_vars

\* A run of "Multiple Node Failure" is past its FAILOVER spec for gNB and has
\* appended the NODE_FAILURE of its first spec only: the second spec has no
\* target node and the trial of the third failed.
FailoverSpecSkipped ==
    /\ sim_pc.at = "scenario"
    /\ scenarios[sim_pc.scenario].name = "Multiple Node Failure"
    /\ sim_pc.step = 4
    /\ SpecTargets(scenarios[sim_pc.scenario].events[2]) = {}
    /\ SpecTargets(scenarios[sim_pc.scenario].events[3]) # {}
    /\ Len(sim_pc.emitted) = 1
    /\ sim_pc.emitted[1].step = 1
    /\ events[sim_pc.emitted[1].pos].type = "NODE_FAILURE"
    /\ events[sim_pc.emitted[1].pos].target_type = "gNB"

\* ===================================================================== C29
\* The positions in the log after a step of the events that the step appended
\* and that write the status of the node of this id: a NODE_FAILURE, or a
\* RECOVERY whose success flag is true.
StatusWrites(node_id) ==
    {p \in (Len(events) + 1)..Len(events') :
        /\ "target_node" \in DOMAIN events'[p]
        /\ events'[p].target_node = node_id
        /\ \/ events'[p].type = "NODE_FAILURE"
           \/ events'[p].type = "RECOVERY" /\ events'[p].details.success}

\* C29: an event changes the status of its target node only: a NODE_FAILURE
\* sets it to down and a RECOVERY with success true sets it to active; a
\* RECOVERY with success false and an event of any other type change the
\* status of no node.
EventStatusEffects ==
    [][\A i \in 1..Len(event_network_nodes) :
          \A writes \in {StatusWrites(event_network_nodes[i].id)} :
             /\ event_network_nodes'[i].id = event_network_nodes[i].id
             /\ event_network_nodes'[i].status =
                   (IF writes = {} THEN event_network_nodes[i].status
                    ELSE IF events'[CHOOSE p \in writes : \A q \in writes : q <= p].type
                              = "NODE_FAILURE"
                    THEN "down" ELSE "active")]_vars

\* The last event is a RECOVERY without success for a node that an earlier
\* NODE_FAILURE set down: the node is still down, and another node is active.
FailedRecoveryLeftNodeDown ==
    /\ Len(events) >= 2
    /\ events[Len(events)].type = "RECOVERY"
    /\ ~events[Len(events)].details.success
    /\ \E p \in 1..(Len(events) - 1) :
         /\ events[p].type = "NODE_FAILURE"
         /\ events[p].target_node = events[Len(events)].target_node
    /\ \E i, j \in 1..Len(event_network_nodes) :
         /\ event_network_nodes[i].id = events[Len(events)].target_node
         /\ event_network_nodes[i].status = "down"
         /\ event_network_nodes[j].status = "active"

\* ===================================================================== C30
\* The alarms that a step created with the arguments of a node_down fault of
\* the node of this id.
NodeDownAlarmsRaised(node_id) ==
    {a \in DOMAIN alarms' \ DOMAIN alarms :
        /\ alarms'[a].node_id = node_id
        /\ alarms'[a].type = "EQUIPMENT"
        /\ alarms'[a].severity = "CRITICAL"
        /\ alarms'[a].description = <<"Node ", node_id, " is down">>
        /\ alarms'[a].status = "active"}

\* C30: in the alarm subsystem the status of a node changes only in the step
\* of a node_down fault of that node, to down and with a CRITICAL EQUIPMENT
\* alarm "Node {id} is down", and in a successful recovery of that node, from
\* down to active; every other step, whatever alarms it creates (the other
\* four faults, the health check, the log scan), leaves every status as it was.
StatusChangesOnlyByNodeDownOrRecovery ==
    [][\A i \in 1..Len(oam_network_nodes) :
          /\ oam_network_nodes'[i].id = oam_network_nodes[i].id
          /\ IF NodeDownAlarmsRaised(oam_network_nodes[i].id) # {}
             THEN /\ oam_network_nodes'[i].status = "down"
                  /\ fg_pc = "faults" /\ fg_i = i
             ELSE IF oam_network_nodes'[i].status # oam_network_nodes[i].status
             THEN /\ oam_network_nodes[i].status = "down"
                  /\ oam_network_nodes'[i].status = "active"
                  /\ fg_pc = "recover" /\ fg_i = i
             ELSE TRUE
          /\ (hc_i >= 1 \/ fg_pc = "sleep") =>
                oam_network_nodes'[i].status = oam_network_nodes[i].status]_vars

\* A node is down with its node_down alarm, and another node is active although
\* a fault of another type or a health check raised an alarm for it.
OtherFaultLeftNodeActive ==
    \E i, j \in 1..Len(oam_network_nodes) : \E a, b \in DOMAIN alarms :
        /\ oam_network_nodes[i].status = "down"
        /\ alarms[a].node_id = oam_network_nodes[i].id
        /\ alarms[a].type = "EQUIPMENT" /\ alarms[a].severity = "CRITICAL"
        /\ oam_network_nodes[j].status = "active"
        /\ alarms[b].node_id = oam_network_nodes[j].id
        /\ alarms[b].type \in {"QUALITY_OF_SERVICE", "PROCESSING_ERROR", "COMMUNICATIONS",
                               "SECURITY"}

\* ===================================================================== C31
\* ------------------------------- the fault-generation loop without an end
\* A tick of the fault-generation loop that begins when the clock has reached
\* MaxTime: the times from MaxTime on are read as MaxTime.
FaultGenWakeLate ==
    /\ AllAsleep
    /\ now = MaxTime
    /\ fg_pc' = "faults"
    /\ UNCHANGED <<now, oamVars, fg_i, hc_i, outsideLoops>>

\* The loops after MaxTime ticks in which no fault fired and no alarm was
\* raised.
InitLate ==
    /\ now = MaxTime
    /\ InitKPI
    /\ InitOutsideKPI

NextFaultLoop ==
    \/ FaultGenWakeLate
    \/ FaultNode
    \/ RecoverTrial

\* The trial of line 104 succeeds for the down node at position i.
RecoverySucceeds(i) ==
    /\ RecoverTrial
    /\ fg_i = i
    /\ oam_network_nodes[i].status = "down"
    /\ oam_network_nodes'[i].status = "active"

\* The loop keeps running: it wakes from every sleep and ends every iteration;
\* the recovery trial of a node that is down does not fail for ever.
SpecFaultLoopFair ==
    /\ InitLate
    /\ [][NextFaultLoop]_vars
    /\ WF_vars(NextFaultLoop)
    /\ \A i \in NodeIdx : SF_vars(RecoverySucceeds(i))

\* The active alarms "Node {id} is down" of the node at position i.
ActiveNodeDownAlarms(i) ==
    {a \in DOMAIN alarms :
        /\ alarms[a].node_id = oam_network_nodes[i].id
        /\ alarms[a].description = NodeDownDesc(oam_network_nodes[i].id)
        /\ alarms[a].status = "active"}

\* C31: while the fault-generation loop runs and the recovery trial of a down
\* node does not fail for ever, every node that is down becomes active again,
\* and every active alarm "Node {id} is down" is cleared.
\* An alarm stays in the store and an active alarm "Node {id} is down" is one
\* of a down node, so it is cleared once none of the node's is active.
DownNodesRecover ==
    /\ [][DOMAIN alarms \subseteq DOMAIN alarms']_vars
    /\ [](\A i \in NodeIdx :
            ActiveNodeDownAlarms(i) # {} => oam_network_nodes[i].status = "down")
    /\ \A i \in NodeIdx :
         (oam_network_nodes[i].status = "down")
           ~> (oam_network_nodes[i].status = "active" /\ ActiveNodeDownAlarms(i) = {})

\* In a tick after the clock reached MaxTime a node has recovered: it is
\* active and its alarm "Node {id} is down", raised at MaxTime, is cleared.
RecoveredInLateTick ==
    \E a \in DOMAIN alarms : \E i \in NodeIdx :
        /\ now = MaxTime
        /\ alarms[a].node_id = oam_network_nodes[i].id
        /\ alarms[a].description = NodeDownDesc(oam_network_nodes[i].id)
        /\ alarms[a].raised_time = MaxTime
        /\ alarms[a].status = "cleared"
        /\ oam_network_nodes[i].status = "active"

\* ===================================================================== C32
\* ------------------------------- start() and stop() called in any sequence
\* A loop is followed while at most this many threads run it.
MaxInstances == 2

\* The threads of a name that have neither returned nor raised.
AliveInstances(t) ==
    loop_instances[t].check + loop_instances[t].tick + loop_instances[t].sleep

\* c.start(): "if self.running: return", else self.running = True and one new
\* thread per loop of the component, which begins at "while self.running:".
StartCall ==
    /\ \E c \in {Components[i] : i \in 1..Len(Components)} :
         IF running[c]
         THEN UNCHANGED <<running, loop_instances>>
         ELSE /\ \A t \in LoopThreads : ComponentOf(t) = c => AliveInstances(t) < MaxInstances
              /\ running' = [running EXCEPT ![c] = TRUE]
              /\ loop_instances' =
                     [t \in LoopThreads |->
                         IF ComponentOf(t) = c
                         THEN [loop_instances[t] EXCEPT !.check = @ + 1]
                         ELSE loop_instances[t]]
    /\ UNCHANGED <<now, oamVars, loopVars, api_call, thVars, eventVars, ev_building, kpiVars,
                   loop_at, main_pc>>

\* c.stop(): self.running = False; no thread is joined.
StopCall ==
    /\ \E c \in {Components[i] : i \in 1..Len(Components)} :
         running' = [running EXCEPT ![c] = FALSE]
    /\ UNCHANGED <<now, oamVars, loopVars, api_call, thVars, eventVars, ev_building, kpiVars,
                   loop_at, main_pc, loop_instances>>

\* "while self.running:" read by a thread: it begins a tick, or its loop
\* function returns and the thread ends.
InstanceCheck ==
    /\ \E t \in LoopThreads :
         /\ loop_instances[t].check > 0
         /\ loop_instances' =
                [loop_instances EXCEPT ![t] =
                    IF running[ComponentOf(t)]
                    THEN [@ EXCEPT !.check = @ - 1, !.tick = @ + 1]
                    ELSE [@ EXCEPT !.check = @ - 1]]
    /\ UNCHANGED <<now, oamVars, loopVars, api_call, thVars, eventVars, ev_building, kpiVars,
                   running, loop_at, main_pc>>

\* The body of a thread's tick runs to the time.sleep that ends it.
InstanceTickDone ==
    /\ \E t \in LoopThreads :
         /\ loop_instances[t].tick > 0
         /\ loop_instances' =
                [loop_instances EXCEPT ![t] = [@ EXCEPT !.tick = @ - 1, !.sleep = @ + 1]]
    /\ UNCHANGED <<now, oamVars, loopVars, api_call, thVars, eventVars, ev_building, kpiVars,
                   running, loop_at, main_pc>>

\* time.sleep returns in a thread.
InstanceSleepDone ==
    /\ \E t \in LoopThreads :
         /\ loop_instances[t].sleep > 0
         /\ loop_instances' =
                [loop_instances EXCEPT ![t] = [@ EXCEPT !.sleep = @ - 1, !.check = @ + 1]]
    /\ UNCHANGED <<now, oamVars, loopVars, api_call, thVars, eventVars, ev_building, kpiVars,
                   running, loop_at, main_pc>>

NextStartStop ==
    \/ StartCall
    \/ StopCall
    \/ InstanceCheck
    \/ InstanceTickDone
    \/ InstanceSleepDone

SpecStartStop == Init /\ [][NextStartStop]_vars

\* C32: under any sequence of start() and stop() calls at most one thread of
\* each periodic loop is alive.
AtMostOneLoopInstance ==
    \A t \in LoopThreads : AliveInstances(t) <= 1

get_status(is_running, store, nodes) ==
    [status |-> IF is_running THEN "running" ELSE "stopped",
     active_alarms |-> Cardinality(DOMAIN store),
     network_nodes |-> Len(nodes),
     healthy_nodes |-> Cardinality({i \in 1..Len(nodes) : nodes[i].status = "active"})]

\* C35: the active_alarms count of get_status is the number of stored alarms
\* whose status is active.
StatusCountsActiveAlarms ==
    get_status(running["oam"], alarms, oam_network_nodes).active_alarms
        = Cardinality({a \in DOMAIN alarms : alarms[a].status = "active"})

\* ===================================================================== C36
\* C36: when simulate_failover_scenario returns a result, its recovery_success
\* is the success flag of the RECOVERY event that the call appended, and the
\* target node is active if the flag is true and down if it is false.
FailoverResultMatchesRecovery ==
    [][(fo_pc.at = "recovery" /\ fo_pc'.at = "none") =>
         \A res \in {cmd_ret'.ret} : \A e \in {events'[Len(events')]} :
            /\ ~cmd_ret'.returned_false
            /\ Len(events') = Len(events) + 1
            /\ e.type = "RECOVERY"
            /\ e.id = res.events[3].id
            /\ e.target_node = res.target_node
            /\ res.metrics.recovery_success = e.details.success
            /\ \A i \in 1..Len(event_network_nodes') :
                 event_network_nodes'[i].id = res.target_node =>
                    event_network_nodes'[i].status =
                        (IF res.metrics.recovery_success THEN "active" ELSE "down")]_vars

\* simulate_failover_scenario has just returned a result whose recovery_success
\* is false: its RECOVERY event is the last of the log and its node is down.
FailoverReturnedFailedRecovery ==
    /\ cmd_ret.op = "simulate_failover_scenario"
    /\ ~cmd_ret.returned_false
    /\ fo_pc.at = "none"
    /\ ~cmd_ret.ret.metrics.recovery_success
    /\ cmd_ret.ret.events[3].id = Len(events)
    /\ ~events[Len(events)].details.success
    /\ \E i \in 1..Len(event_network_nodes) :
         /\ event_network_nodes[i].id = cmd_ret.ret.target_node
         /\ event_network_nodes[i].status = "down"

\* ===================================================================== C37
\* The values that decide the severities of a KPI: each threshold, the value
\* one hundredth below it and the value one hundredth above it.  The severity
\* changes at the thresholds only, so every value has the severity of one of
\* these.
ThresholdCases(kpi) ==
    {kpi.critical_threshold - 1, kpi.critical_threshold, kpi.critical_threshold + 1,
     kpi.warning_threshold - 1, kpi.warning_threshold, kpi.warning_threshold + 1}

\* The severities that the evaluation of lines 92-105 gives for a KPI.
SeveritiesOf(kpi) == {Severity(kpi, v) : v \in ThresholdCases(kpi)}

\* C37: for every KPI definition of the catalog, each of which has its
\* windows in kpi_data, the threshold evaluation gives each of OK, WARNING and
\* CRITICAL for some value.
EverySeverityProduced ==
    \A k \in 1..Len(kpi_definitions) :
        kpi_definitions[k].id \in DOMAIN kpi_data =>
            SeveritiesOf(kpi_definitions[k]) = {"OK", "WARNING", "CRITICAL"}
====
